---- MODULE Spec2Model ----
(***************************************************************************)
(* chuk-mcp-stage: the physics-to-animation bridge (PhysicsBridge).        *)
(*                                                                         *)
(* Spec       : the life of one PhysicsBridge: its session (__aenter__ /   *)
(*              __aexit__) and bake_simulation calls against a physics     *)
(*              service that may answer each request with a transport      *)
(*              failure, a non-2xx status or a JSON body.  The calls use   *)
(*              the default fps and duration; the answers range over all   *)
(*              bounded frame lists.                                       *)
(* SpecArgs   : the same bridge and the same actions, with the calls       *)
(*              ranging over all bounded fps and durations and the         *)
(*              service over a few answers.                                *)
(* SpecInterp : interpolate_keyframe applied to bounded keyframe lists.    *)
(* SpecJson   : keyframes_to_json and keyframes_from_json applied in turn  *)
(*              to bounded keyframe lists.                                 *)
(* SpecStage  : stage_bake_simulation calls on a scene of bounded objects  *)
(*              and bindings; each call drives the bridge actions above    *)
(*              through a session of its own.                              *)
(* SpecConfig : the construction and the opening of a bridge under every   *)
(*              bounded environment (RAPIER_SERVICE_URL, RAPIER_URL,       *)
(*              RAPIER_TIMEOUT), which may change in between.              *)
(* SpecScene  : a SceneManager with one caller: create_scene, get_scene,   *)
(*              add_object, set_environment, add_shot, get_shot,           *)
(*              bind_physics, add_baked_animation and get_scene_vfs, each  *)
(*              call made when the one before has ended; the cache may be  *)
(*              dropped between calls.                                     *)
(* SpecTasks  : the same manager called from interleaved coroutines:       *)
(*              create_scene, add_object and bind_physics calls wait for   *)
(*              their writes together.                                     *)
(*                                                                         *)
(* Numbers: a duration is the exact rational num/den (halves, which the    *)
(* binary floats of the program represent exactly); dt = 1.0 / fps is the  *)
(* rational 1/fps; an interpolated component is a reduced rational.        *)
(***************************************************************************)
EXTENDS Integers, Sequences, FiniteSets, TLC

VARIABLES
    client,         \* PhysicsBridge._client: "None", "open" or "closed"
    pc,             \* position of the bake_simulation coroutine
    simulation_id,  \* arguments of the bake_simulation call in progress
    body_ids,
    fps,
    duration,
    idx,            \* number of entries of body_ids the loop has finished
    baked_data,     \* the local dict body_id -> keyframes
    requests,       \* requests this call has posted, in order
    responses,      \* what the service answered to them, in order
    result,         \* how the call ended: nothing yet, a return or a raise
    keyframes,      \* interpolate_keyframe: argument keyframes
    time,           \* interpolate_keyframe: argument time
    ipc,            \* interpolate_keyframe: "off", "ready" or "done"
    pose,           \* interpolate_keyframe: how the call ended
    jkeyframes,     \* JSON round trip: the keyframe list it starts from
    dumps,          \* the texts keyframes_to_json has returned, in order
    loads,          \* how the keyframes_from_json calls ended, in order
    objects,        \* scene.objects: the objects in insertion order
    baked_animations, \* scene.baked_animations: object id -> BakedAnimation
    blobs,          \* the files of the scene's workspace: path -> text
    dirs,           \* the directories of the scene's workspace
    spc,            \* position of the stage_bake_simulation coroutine
    stage_args,     \* arguments of the stage_bake_simulation call
    bound_objects,  \* its local bound_objects
    stage_baked,    \* its local baked_data
    sidx,           \* number of bound objects its storing loop has finished
    total_frames,   \* its local total_frames
    baked_object_ids, \* its local baked_object_ids
    stage_result,   \* how the call ended
    at_call,        \* the scene and the workspace when the call started
    environ,        \* os.environ: the three variables Config reads
    url_arg,        \* the argument PhysicsBridge was constructed with
    physics_server_url, \* PhysicsBridge.physics_server_url
    timeout,        \* the timeout __aenter__ gave the client
    cpc,            \* "off"; or the bridge is "none", "constructed", "entered"
    env_at_init,    \* os.environ when the bridge was constructed
    shots,          \* scene.shots: the shots in insertion order
    environment,    \* scene.environment
    lighting,       \* scene.lighting
    scenes,         \* SceneManager._scenes: the ids of the cached scenes
    scene_to_namespace, \* SceneManager._scene_to_namespace: the ids it maps
    calls,          \* the scene-manager calls waiting for their write
    outcome         \* the scene-manager call that ended last, and how

bridgeVars == <<client, pc, simulation_id, body_ids, fps, duration, idx,
                baked_data, requests, responses, result>>
interpVars == <<keyframes, time, ipc, pose>>
jsonVars == <<jkeyframes, dumps, loads>>
sceneVars == <<objects, baked_animations, blobs, dirs>>
stageVars == <<spc, stage_args, bound_objects, stage_baked, sidx,
               total_frames, baked_object_ids, stage_result, at_call>>
vars == <<client, pc, simulation_id, body_ids, fps, duration, idx,
          baked_data, requests, responses, result, keyframes, time, ipc, pose,
          jkeyframes, dumps, loads, objects, baked_animations, blobs, dirs,
          spc, stage_args, bound_objects, stage_baked, sidx, total_frames,
          baked_object_ids, stage_result, at_call, environ, url_arg,
          physics_server_url, timeout, cpc, env_at_init, shots, environment,
          lighting, scenes, scene_to_namespace, calls, outcome>>
managerVars == <<shots, environment, lighting, scenes, scene_to_namespace,
                 calls, outcome>>
configVars == <<environ, url_arg, physics_server_url, timeout, cpc, env_at_init>>
nonBridgeVars == <<interpVars, jsonVars, sceneVars, stageVars, configVars,
                  managerVars>>
nonInterpVars == <<bridgeVars, jsonVars, sceneVars, stageVars, configVars,
                  managerVars>>
nonJsonVars == <<bridgeVars, interpVars, sceneVars, stageVars, configVars,
                  managerVars>>
nonConfigVars == <<bridgeVars, interpVars, jsonVars, sceneVars, stageVars,
                  managerVars>>

----------------------------------------------------------------------------
(* Bounds of the model                                                     *)

MaxBodies == 2
MaxFrames == 2
MaxFps == 3
MaxDurHalves == 10
MaxLen == 3
MaxTime == 3
MaxJsonHalves == 21
MaxJsonLen == 2
MaxRoundTrips == 2
MaxObjects == 2
MaxInFlight == 2

(* Program constants                                                       *)

FallbackSteps == 600
DefaultFps == 60

----------------------------------------------------------------------------
(* Generic helpers                                                         *)

SeqsUpTo(S, n) == UNION {[1..k -> S] : k \in 0..n}

Min(S) == CHOOSE x \in S : \A y \in S : x <= y

Max(S) == CHOOSE x \in S : \A y \in S : x >= y

Abs(x) == IF x < 0 THEN -x ELSE x

RECURSIVE GCD(_, _)
GCD(a, b) == IF b = 0 THEN a ELSE GCD(b, a % b)

\* The rational n/d, d > 0, in lowest terms.
Rat(n, d) ==
    LET g == GCD(Abs(n), d)
    IN  [num |-> n \div g, den |-> d \div g]

\* dict.get(key, default)
DictGet(d, key, default) == IF key \in DOMAIN d THEN d[key] ELSE default

\* d[key] = value on a dict
DictSet(d, key, value) ==
    [k \in DOMAIN d \cup {key} |-> IF k = key THEN value ELSE d[k]]

Without(d, key) == [k \in DOMAIN d \ {key} |-> d[k]]

EmptyDict == <<>>

----------------------------------------------------------------------------
(* Inputs of bake_simulation                                               *)

SimIds == {"sim-001", "sim-002"}
BodyIds == {"body1", "body2"}
BodyLists == SeqsUpTo(BodyIds, MaxBodies)
FpsValues == (1..MaxFps) \cup {DefaultFps}

\* duration: Optional[float].  None, or num/den seconds.
NoDuration == [none |-> TRUE]
Durations == {NoDuration} \cup {[num |-> n, den |-> 2] : n \in 0..MaxDurHalves}

\* Python truthiness of `duration`: None and 0.0 are falsy.
Truthy(d) == d # NoDuration /\ d.num # 0

\* int(x) of a non-negative rational num/den: truncation.
IntTrunc(num, den) == num \div den

\* round(x) of a non-negative rational num/den: to nearest, ties to even.
Round(num, den) ==
    LET q == num \div den
        r == num % den
    IN  IF 2 * r < den THEN q
        ELSE IF 2 * r > den THEN q + 1
        ELSE IF q % 2 = 0 THEN q ELSE q + 1

\* The fallback mutated to follow fps (10 seconds at the requested rate).
StepsFallbackPerFps(d, f) ==
    IF Truthy(d) THEN IntTrunc(d.num * f, d.den) ELSE 10 * f

\* physics_bridge.py 85-90
Steps(d, f) ==
    IF Truthy(d) THEN IntTrunc(d.num * f, d.den) ELSE FallbackSteps

\* physics_bridge.py 99: 1.0 / fps
Dt(f) == [num |-> 1, den |-> f]

\* The request mutated to be addressed to the first body of the list.
TrajectoryRequestFirstBody(sim, bodies, i, f, d) ==
    [path |-> <<"simulations", sim, "bodies", bodies[1], "trajectory">>,
     json |-> [steps |-> Steps(d, f), dt |-> Dt(f)]]

\* physics_bridge.py 95-101: the POST for the i-th entry of body_ids
TrajectoryRequest(sim, bodies, i, f, d) ==
    [path |-> <<"simulations", sim, "bodies", bodies[i], "trajectory">>,
     json |-> [steps |-> Steps(d, f), dt |-> Dt(f)]]

----------------------------------------------------------------------------
(* What the physics service may answer                                     *)

ZeroVelocity == <<0, 0, 0>>

FrameA == [time |-> 0, position |-> <<1, 2, 3>>,
           orientation |-> <<0, 0, 0, 1>>, velocity |-> <<1, 0, 1>>]
\* a frame without the optional velocity
FrameB == [time |-> 1, position |-> <<2, 3, 4>>, orientation |-> <<1, 0, 0, 0>>]

RequiredKeys == <<"time", "position", "orientation">>

WireFrames ==
    {FrameA, FrameB} \cup {Without(FrameA, RequiredKeys[k]) : k \in 1..3}

JsonBodies ==
    {[frames |-> fs] : fs \in SeqsUpTo(WireFrames, MaxFrames)}
        \cup {[detail |-> "no trajectory"]}

TransportExceptions == {"ConnectError", "TimeoutException"}

Responses ==
    {[post |-> e] : e \in TransportExceptions}
        \cup {[post |-> "ok", status |-> 500]}
        \cup {[post |-> "ok", status |-> 200, text |-> "not json"]}
        \cup {[post |-> "ok", status |-> 200, json |-> b] : b \in JsonBodies}

\* The answers of the service under SpecArgs
FewResponses ==
    {[post |-> "ConnectError"],
     [post |-> "ok", status |-> 500],
     [post |-> "ok", status |-> 200, json |-> [frames |-> <<FrameA, FrameB>>]]}

\* The exceptions that are httpx.HTTPError
HTTPErrors == TransportExceptions \cup {"HTTPStatusError"}

----------------------------------------------------------------------------
(* Conversion of a response to keyframes                                   *)

\* frame["time"], frame["position"], frame["orientation"]: the first
\* subscript that raises KeyError, in the order the dict literal evaluates.
MissingKey(frame) ==
    IF "time" \notin DOMAIN frame THEN "time"
    ELSE IF "position" \notin DOMAIN frame THEN "position"
    ELSE IF "orientation" \notin DOMAIN frame THEN "orientation"
    ELSE "none"

\* Mutant: a missing required field is replaced by a default.
ConvertFrameDefaulting(frame) ==
    [raised |-> "none",
     keyframe |-> [time |-> DictGet(frame, "time", 0),
                   position |-> DictGet(frame, "position", <<0, 0, 0>>),
                   rotation |-> DictGet(frame, "orientation", <<0, 0, 0, 1>>),
                   velocity |-> DictGet(frame, "velocity", ZeroVelocity)]]

\* Mutant: the velocity of the frame is dropped.
ConvertFrameNoVelocity(frame) ==
    IF MissingKey(frame) # "none"
    THEN [raised |-> "KeyError", key |-> MissingKey(frame)]
    ELSE [raised |-> "none",
          keyframe |-> [time |-> frame.time,
                        position |-> frame.position,
                        rotation |-> frame.orientation,
                        velocity |-> ZeroVelocity]]

\* physics_bridge.py 108-115
ConvertFrame(frame) ==
    IF MissingKey(frame) # "none"
    THEN [raised |-> "KeyError", key |-> MissingKey(frame)]
    ELSE [raised |-> "none",
          keyframe |-> [time |-> frame.time,
                        position |-> frame.position,
                        rotation |-> frame.orientation,
                        velocity |-> DictGet(frame, "velocity", ZeroVelocity)]]

\* physics_bridge.py 106-115: the loop over the frames, in order; the first
\* frame that lacks a required field ends it with KeyError.
ConvertFrames(frames) ==
    LET conv == [k \in 1..Len(frames) |-> ConvertFrame(frames[k])]
        bad == {k \in 1..Len(frames) : conv[k].raised # "none"}
    IN  IF bad # {} THEN [raised |-> "KeyError", key |-> conv[Min(bad)].key]
        ELSE [raised |-> "none",
              keyframes |-> [k \in 1..Len(frames) |-> conv[k].keyframe]]

\* Mutant: a failed fetch is logged and skipped, the loop goes on.
HandleResponseSwallowing(r) ==
    IF r.post # "ok" THEN [raised |-> "none", keyframes |-> <<>>]
    ELSE IF r.status # 200 THEN [raised |-> "none", keyframes |-> <<>>]
    ELSE IF "json" \notin DOMAIN r THEN [raised |-> "JSONDecodeError"]
    ELSE ConvertFrames(DictGet(r.json, "frames", <<>>))

\* Mutant: a body without "frames" counts as one frame at rest.
HandleResponseDefaultFrame(r) ==
    IF r.post # "ok" THEN [raised |-> r.post]
    ELSE IF r.status # 200 THEN [raised |-> "HTTPStatusError"]
    ELSE IF "json" \notin DOMAIN r THEN [raised |-> "JSONDecodeError"]
    ELSE ConvertFrames(DictGet(r.json, "frames", <<FrameA>>))

\* physics_bridge.py 95-117: what one response does to the loop body:
\* an exception, or the keyframes stored under the body id.
HandleResponse(r) ==
    IF r.post # "ok" THEN [raised |-> r.post]
    ELSE IF r.status # 200 THEN [raised |-> "HTTPStatusError"]
    ELSE IF "json" \notin DOMAIN r THEN [raised |-> "JSONDecodeError"]
    ELSE ConvertFrames(DictGet(r.json, "frames", <<>>))

----------------------------------------------------------------------------
(* The bridge                                                              *)

NoResult == [kind |-> "none"]
Raise(e) == [kind |-> "raise", exc |-> e]
Return(v) == [kind |-> "return", value |-> v]

InterpIdle ==
    /\ keyframes = <<>>
    /\ time = 0
    /\ ipc = "off"
    /\ pose = NoResult

JsonIdle ==
    /\ jkeyframes = <<>>
    /\ dumps = <<>>
    /\ loads = <<>>

\* Optional[str]: None (an argument not given, a variable not set), or a
\* string, held as the sequence of its pieces
None == [none |-> TRUE]
Str(s) == [str |-> s]

DEFAULT_RAPIER_URL == Str(<<"https://rapier.chukai.io">>)

\* The environment sets nothing and the bridge was constructed without an
\* argument: its URL is the default one.
ConfigIdle ==
    /\ environ = [RAPIER_SERVICE_URL |-> None, RAPIER_URL |-> None,
                  RAPIER_TIMEOUT |-> None]
    /\ url_arg = None
    /\ physics_server_url = DEFAULT_RAPIER_URL
    /\ timeout = NoResult
    /\ cpc = "off"
    /\ env_at_init = environ

\* Environment(type=...) and Lighting(preset=...); the defaults of a new Scene
Environment(type) == [type |-> type]
Lighting(preset) == [preset |-> preset]
DefaultEnvironment == Environment("gradient")
DefaultLighting == Lighting("three-point")

\* A SceneManager that has created no scene; the fields of the scene are
\* those a new Scene would have.
ManagerIdle ==
    /\ shots = <<>>
    /\ environment = DefaultEnvironment
    /\ lighting = DefaultLighting
    /\ scenes = {}
    /\ scene_to_namespace = {}
    /\ calls = <<>>
    /\ outcome = NoResult

\* An empty scene in an empty workspace, and no stage_bake_simulation call.
StageIdle ==
    /\ ManagerIdle
    /\ objects = <<>>
    /\ baked_animations = EmptyDict
    /\ blobs = EmptyDict
    /\ dirs = {}
    /\ spc = "idle"
    /\ stage_args = NoResult
    /\ bound_objects = <<>>
    /\ stage_baked = EmptyDict
    /\ sidx = 0
    /\ total_frames = 0
    /\ baked_object_ids = <<>>
    /\ stage_result = NoResult
    /\ at_call = NoResult

\* No bake_simulation call exists: no arguments, no locals, no outcome.
NoCall ==
    /\ pc = "idle"
    /\ simulation_id = "sim-001"
    /\ body_ids = <<>>
    /\ fps = 1
    /\ duration = NoDuration
    /\ idx = 0
    /\ baked_data = EmptyDict
    /\ requests = <<>>
    /\ responses = <<>>
    /\ result = NoResult

\* PhysicsBridge.__init__
Init ==
    /\ client = "None"
    /\ NoCall
    /\ InterpIdle
    /\ JsonIdle
    /\ StageIdle
    /\ ConfigIdle

\* PhysicsBridge.__aenter__: physics_server_url is never empty, so a client
\* is always created.
AEnter ==
    /\ pc = "idle"
    /\ client' = "open"
    /\ UNCHANGED <<pc, simulation_id, body_ids, fps, duration, idx,
                   baked_data, requests, responses, result>>
    /\ UNCHANGED nonBridgeVars

\* PhysicsBridge.__aexit__: closes the client it has, and keeps the
\* reference to it.
AExit ==
    /\ pc = "idle"
    /\ client' = IF client = "None" THEN "None" ELSE "closed"
    /\ UNCHANGED <<pc, simulation_id, body_ids, fps, duration, idx,
                   baked_data, requests, responses, result>>
    /\ UNCHANGED nonBridgeVars

\* Mutant: every result is stored under the first body id.
StoreUnderFirst(d, bodies, i, ks) == DictSet(d, bodies[1], ks)

\* physics_bridge.py 117: baked_data[body_id] = keyframes
Store(d, bodies, i, ks) == DictSet(d, bodies[i], ks)

NotInitialized == "ValueError: Physics client not initialized"

\* Mutant: the guard on the client is missing.
ClientMissingNever(c) == FALSE

\* A guard that also rejects the client __aexit__ has closed
ClientMissingOrClosed(c) == c \in {"None", "closed"}

\* physics_bridge.py 70: `not self._client`
ClientMissing(c) == c = "None"

\* bake_simulation(sim, bodies, f, d) up to the loop, on a bridge whose
\* client is c: the guard and the empty dict.
BakeBegin(sim, bodies, f, d, c) ==
    /\ simulation_id' = sim
    /\ body_ids' = bodies
    /\ fps' = f
    /\ duration' = d
    /\ idx' = 0
    /\ baked_data' = EmptyDict
    /\ requests' = <<>>
    /\ responses' = <<>>
    /\ IF ClientMissing(c)
       THEN pc' = "raised" /\ result' = Raise(NotInitialized)
       ELSE pc' = "loop" /\ result' = NoResult

BakeCall(fpss, durations) ==
    /\ pc = "idle"
    /\ \E sim \in SimIds, bodies \in BodyLists, f \in fpss, d \in durations :
        BakeBegin(sim, bodies, f, d, client)
    /\ UNCHANGED client
    /\ UNCHANGED nonBridgeVars

\* The loop body up to the await: steps, and the POST for body_ids[idx].
\* A closed client refuses to send (httpx raises RuntimeError).
Post ==
    /\ pc = "loop"
    /\ idx < Len(body_ids)
    /\ IF client = "closed"
       THEN /\ pc' = "raised"
            /\ result' = Raise("RuntimeError")
            /\ UNCHANGED requests
       ELSE /\ pc' = "awaiting"
            /\ requests' = Append(requests,
                   TrajectoryRequest(simulation_id, body_ids, idx + 1, fps, duration))
            /\ UNCHANGED result
    /\ UNCHANGED <<client, simulation_id, body_ids, fps, duration, idx,
                   baked_data, responses>>
    /\ UNCHANGED nonBridgeVars

\* The loop body after the await: raise_for_status, json, the conversion
\* and the store; `except httpx.HTTPError: raise` re-raises, every other
\* exception propagates as it is.
Respond(answers) ==
    /\ pc = "awaiting"
    /\ \E r \in answers :
        LET h == HandleResponse(r) IN
        /\ responses' = Append(responses, r)
        /\ IF h.raised # "none"
           THEN /\ pc' = "raised"
                /\ result' = Raise(h.raised)
                /\ UNCHANGED <<idx, baked_data>>
           ELSE /\ pc' = "loop"
                /\ baked_data' = Store(baked_data, body_ids, idx + 1, h.keyframes)
                /\ idx' = idx + 1
                /\ UNCHANGED result
    /\ UNCHANGED <<client, simulation_id, body_ids, fps, duration, requests>>
    /\ UNCHANGED nonBridgeVars

\* physics_bridge.py 124: return baked_data
BakeReturn ==
    /\ pc = "loop"
    /\ idx = Len(body_ids)
    /\ pc' = "returned"
    /\ result' = Return(baked_data)
    /\ UNCHANGED <<client, simulation_id, body_ids, fps, duration, idx,
                   baked_data, requests, responses>>
    /\ UNCHANGED nonBridgeVars

\* The call is over: the caller has its outcome and the frame of the
\* coroutine (arguments and locals) is gone.
CallEnds ==
    /\ pc \in {"returned", "raised"}
    /\ pc' = "idle"
    /\ simulation_id' = "sim-001"
    /\ body_ids' = <<>>
    /\ fps' = 1
    /\ duration' = NoDuration
    /\ idx' = 0
    /\ baked_data' = EmptyDict
    /\ requests' = <<>>
    /\ responses' = <<>>
    /\ result' = NoResult
    /\ UNCHANGED client
    /\ UNCHANGED nonBridgeVars

Next ==
    \/ AEnter
    \/ AExit
    \/ BakeCall({DefaultFps}, {NoDuration})
    \/ Post
    \/ Respond(Responses)
    \/ BakeReturn
    \/ CallEnds

Spec == Init /\ [][Next]_vars

NextArgs ==
    \/ AEnter
    \/ AExit
    \/ BakeCall(FpsValues, Durations)
    \/ Post
    \/ Respond(FewResponses)
    \/ BakeReturn
    \/ CallEnds

SpecArgs == Init /\ [][NextArgs]_vars

----------------------------------------------------------------------------
(* interpolate_keyframe                                                    *)

\* models.py: Vector3 and Quaternion, fields coerced to float
Vector3(x, y, z) == [x |-> x, y |-> y, z |-> z]
Quaternion(x, y, z, w) == [x |-> x, y |-> y, z |-> z, w |-> w]
Float(v) == [num |-> v, den |-> 1]

\* Position, rotation and velocity of the samples the lists are built of
Samples ==
    {[position |-> <<1, 2, 3>>, rotation |-> <<0, 0, 0, 1>>, velocity |-> <<0, 0, 0>>],
     [position |-> <<2, 3, 4>>, rotation |-> <<1, 0, 0, 0>>, velocity |-> <<1, -1, 0>>],
     [position |-> <<0, -1, 5>>, rotation |-> <<0, 1, 0, 0>>, velocity |-> <<0, -2, 0>>]}

Times == 0..MaxTime

InterpKeyframes ==
    {[time |-> t, position |-> s.position, rotation |-> s.rotation,
      velocity |-> s.velocity] : t \in Times, s \in Samples}

\* Mutant: the scan does not stop at the first keyframe at or after the
\* time, it keeps the last one.
AfterIndexLast(ks, t) ==
    LET S == {i \in 1..Len(ks) : ks[i].time >= t}
    IN  IF S = {} THEN 0 ELSE Max(S)

\* physics_bridge.py 170-175: the index at which the scan breaks, the
\* first keyframe with kf["time"] >= time; 0 when `after` stays None.
AfterIndex(ks, t) ==
    LET S == {i \in 1..Len(ks) : ks[i].time >= t}
    IN  IF S = {} THEN 0 ELSE Min(S)

\* physics_bridge.py 170-172: `before` is the last keyframe the scan saw
\* (up to and including the one it broke at) with kf["time"] <= time;
\* 0 when `before` stays None.
BeforeIndex(ks, t) ==
    LET stop == IF AfterIndex(ks, t) = 0 THEN Len(ks) ELSE AfterIndex(ks, t)
        S == {i \in 1..stop : ks[i].time <= t}
    IN  IF S = {} THEN 0 ELSE Max(S)

\* physics_bridge.py 179-188: the values of one keyframe, unblended
ExactPose(kf) ==
    <<Vector3(Float(kf.position[1]), Float(kf.position[2]), Float(kf.position[3])),
      Quaternion(Float(kf.rotation[1]), Float(kf.rotation[2]),
                 Float(kf.rotation[3]), Float(kf.rotation[4])),
      Vector3(Float(kf.velocity[1]), Float(kf.velocity[2]), Float(kf.velocity[3]))>>

\* Mutant: the blend adds the whole of `after`, not the difference.
LerpNoDifference(b, a, n, d) == Rat(b * d + n * a, d)

\* before + t * (after - before) with t = n/d
Lerp(b, a, n, d) == Rat(b * d + n * (a - b), d)

\* physics_bridge.py 219-243
LerpPose(before, after, n, d) ==
    <<Vector3(Lerp(before.position[1], after.position[1], n, d),
              Lerp(before.position[2], after.position[2], n, d),
              Lerp(before.position[3], after.position[3], n, d)),
      Quaternion(Lerp(before.rotation[1], after.rotation[1], n, d),
                 Lerp(before.rotation[2], after.rotation[2], n, d),
                 Lerp(before.rotation[3], after.rotation[3], n, d),
                 Lerp(before.rotation[4], after.rotation[4], n, d)),
      Vector3(Lerp(before.velocity[1], after.velocity[1], n, d),
              Lerp(before.velocity[2], after.velocity[2], n, d),
              Lerp(before.velocity[3], after.velocity[3], n, d))>>

\* Mutant: the default quaternion is all zeros.
DefaultPoseZeroQuaternion ==
    <<Vector3(Float(0), Float(0), Float(0)),
      Quaternion(Float(0), Float(0), Float(0), Float(0)),
      Vector3(Float(0), Float(0), Float(0))>>

\* physics_bridge.py 164: Vector3(), Quaternion(), Vector3() with the
\* field defaults of models.py
DefaultPose ==
    <<Vector3(Float(0), Float(0), Float(0)),
      Quaternion(Float(0), Float(0), Float(0), Float(1)),
      Vector3(Float(0), Float(0), Float(0))>>

\* Mutant: past the last keyframe the first one is returned, and the
\* check for an exact hit is gone.
interpolate_keyframeCopyPaste(ks, t) ==
    IF ks = <<>>
    THEN Return(DefaultPose)
    ELSE
        LET bi == BeforeIndex(ks, t)
            ai == AfterIndex(ks, t)
        IN  IF bi = 0 THEN Return(ExactPose(ks[1]))
            ELSE IF ai = 0 THEN Return(ExactPose(ks[1]))
            ELSE IF ks[ai].time - ks[bi].time = 0 THEN Raise("ZeroDivisionError")
            ELSE Return(LerpPose(ks[bi], ks[ai], t - ks[bi].time,
                                 ks[ai].time - ks[bi].time))

\* physics_bridge.py 163-243
interpolate_keyframe(ks, t) ==
    IF ks = <<>>
    THEN Return(DefaultPose)
    ELSE
        LET bi == BeforeIndex(ks, t)
            ai == AfterIndex(ks, t)
        IN  IF bi # 0 /\ ks[bi].time = t THEN Return(ExactPose(ks[bi]))
            ELSE IF bi = 0 THEN Return(ExactPose(ks[1]))
            ELSE IF ai = 0 THEN Return(ExactPose(ks[Len(ks)]))
            ELSE IF ks[ai].time - ks[bi].time = 0 THEN Raise("ZeroDivisionError")
            ELSE Return(LerpPose(ks[bi], ks[ai], t - ks[bi].time,
                                 ks[ai].time - ks[bi].time))

InitInterp ==
    /\ client = "None"
    /\ NoCall
    /\ keyframes \in SeqsUpTo(InterpKeyframes, MaxLen)
    /\ time \in Times
    /\ ipc = "ready"
    /\ pose = NoResult
    /\ JsonIdle
    /\ StageIdle
    /\ ConfigIdle

\* One call of interpolate_keyframe on the list and the time drawn.
Interpolate ==
    /\ ipc = "ready"
    /\ pose' = interpolate_keyframe(keyframes, time)
    /\ ipc' = "done"
    /\ UNCHANGED <<keyframes, time>>
    /\ UNCHANGED nonInterpVars

NextInterp == Interpolate

SpecInterp == InitInterp /\ [][NextInterp]_vars

----------------------------------------------------------------------------
(* keyframes_to_json / keyframes_from_json                                 *)
(*                                                                         *)
(* A text is the sequence of its characters, except that a string literal  *)
(* (only the four keys occur) is one element, quotes included.  A Python   *)
(* float is of the form k/2 and held as the reduced rational, a Python int *)
(* is an integer; the text of a number is its repr, and parsing computes   *)
(* the value from the digits: a float when there is a fraction, an int     *)
(* when there is none.  The numbers of one keyframe list are all floats or *)
(* all ints.                                                               *)

DigitChars == <<"0", "1", "2", "3", "4", "5", "6", "7", "8", "9">>

IsDigit(c) == \E d \in 1..Len(DigitChars) : DigitChars[d] = c

DigitOf(c) == (CHOOSE d \in 1..Len(DigitChars) : DigitChars[d] = c) - 1

RECURSIVE Digits(_)
Digits(n) ==
    IF n < Len(DigitChars)
    THEN <<DigitChars[n + 1]>>
    ELSE Digits(n \div Len(DigitChars))
             \o <<DigitChars[(n % Len(DigitChars)) + 1]>>

\* float.__repr__ with the fraction cut off, as "%d" would print it
FloatReprTruncating(v) ==
    (IF v.num < 0 THEN <<"-">> ELSE <<>>)
        \o Digits(Abs(v.num) \div v.den) \o <<".", "0">>

\* float.__repr__ of a float with at most one fractional digit
FloatRepr(v) ==
    (IF v.num < 0 THEN <<"-">> ELSE <<>>)
        \o Digits(Abs(v.num) \div v.den)
        \o <<".">>
        \o Digits(((Abs(v.num) % v.den) * Len(DigitChars)) \div v.den)

\* int.__repr__
IntRepr(n) == (IF n < 0 THEN <<"-">> ELSE <<>>) \o Digits(Abs(n))

Quoted(k) == "\"" \o k \o "\""

\* the keys of a keyframe, in the insertion order of bake_simulation
KeyOrder == <<"time", "position", "rotation", "velocity">>

\* json.dumps(indent=2): a newline and two spaces per nesting level
Newline(level) == <<"\n">> \o [i \in 1..(2 * level) |-> " "]

RECURSIVE Join(_, _)
Join(items, sep) ==
    IF Len(items) = 0 THEN <<>>
    ELSE IF Len(items) = 1 THEN items[1]
    ELSE items[1] \o sep \o Join(Tail(items), sep)

DumpList(items, level) ==
    IF Len(items) = 0
    THEN <<"[", "]">>
    ELSE <<"[">> \o Newline(level + 1)
             \o Join(items, <<",">> \o Newline(level + 1))
             \o Newline(level) \o <<"]">>

DumpDict(members, level) ==
    IF Len(members) = 0
    THEN <<"{", "}">>
    ELSE <<"{">> \o Newline(level + 1)
             \o Join([i \in 1..Len(members) |->
                         <<Quoted(members[i][1]), ":", " ">> \o members[i][2]],
                     <<",">> \o Newline(level + 1))
             \o Newline(level) \o <<"}">>

\* repr of a number of the given type, "float" or "int"
NumberRepr(v, type) == IF type = "float" THEN FloatRepr(v) ELSE IntRepr(v)

DumpKeyframe(kf, level, type) ==
    DumpDict([i \in 1..Len(KeyOrder) |->
                 <<KeyOrder[i],
                   IF KeyOrder[i] = "time"
                   THEN NumberRepr(kf.time, type)
                   ELSE DumpList([j \in 1..Len(kf[KeyOrder[i]]) |->
                                     NumberRepr(kf[KeyOrder[i]][j], type)],
                                 level + 1)>>],
             level)

\* json.dumps(keyframes, indent=2) of keyframes whose numbers have the type
JsonDumps(ks, type) ==
    DumpList([i \in 1..Len(ks) |-> DumpKeyframe(ks[i], 1, type)], 0)

\* PhysicsBridge.keyframes_to_json on keyframes of floats
keyframes_to_json(ks) == JsonDumps(ks, "float")

\* PhysicsBridge.keyframes_to_json on keyframes of ints
keyframes_to_json_ints(ks) == JsonDumps(ks, "int")

Whitespace == {" ", "\n", "\r", "\t"}

RECURSIVE SkipWs(_, _)
SkipWs(text, p) ==
    IF p <= Len(text) /\ text[p] \in Whitespace THEN SkipWs(text, p + 1) ELSE p

\* the position after the run of digits starting at p
RECURSIVE ScanDigits(_, _)
ScanDigits(text, p) ==
    IF p <= Len(text) /\ IsDigit(text[p]) THEN ScanDigits(text, p + 1) ELSE p

\* the value of the digits text[p..q-1], continuing from acc
RECURSIVE DigitsValue(_, _, _, _)
DigitsValue(text, p, q, acc) ==
    IF p >= q THEN acc
    ELSE DigitsValue(text, p + 1, q, acc * Len(DigitChars) + DigitOf(text[p]))

RECURSIVE Pow10(_)
Pow10(n) == IF n = 0 THEN 1 ELSE Len(DigitChars) * Pow10(n - 1)

Parsed(v, p) == [ok |-> TRUE, value |-> v, next |-> p]
NoParse(p) == [ok |-> FALSE, value |-> <<>>, next |-> p]

\* a JSON number: -? digits (. digits)?
ParseNumber(text, p) ==
    LET neg == p <= Len(text) /\ text[p] = "-"
        s   == IF neg THEN p + 1 ELSE p
        e   == ScanDigits(text, s)
        sgn == IF neg THEN -1 ELSE 1
    IN  IF e = s THEN NoParse(p)
        ELSE IF e <= Len(text) /\ text[e] = "."
        THEN LET fe == ScanDigits(text, e + 1)
             IN  IF fe = e + 1 THEN NoParse(p)
                 ELSE Parsed(Rat(sgn * DigitsValue(text, e + 1, fe,
                                                   DigitsValue(text, s, e, 0)),
                                 Pow10(fe - (e + 1))),
                             fe)
        ELSE Parsed(sgn * DigitsValue(text, s, e, 0), e)

IsString(tok) == \E i \in 1..Len(KeyOrder) : Quoted(KeyOrder[i]) = tok

StringOf(tok) ==
    KeyOrder[CHOOSE i \in 1..Len(KeyOrder) : Quoted(KeyOrder[i]) = tok]

RECURSIVE ParseValue(_, _)
RECURSIVE ParseElements(_, _, _)
RECURSIVE ParseMembers(_, _, _)

\* the value starting at p, p being past any whitespace
ParseValue(text, p) ==
    IF p > Len(text) THEN NoParse(p)
    ELSE IF text[p] = "["
    THEN LET q == SkipWs(text, p + 1)
         IN  IF q <= Len(text) /\ text[q] = "]"
             THEN Parsed(<<>>, q + 1)
             ELSE ParseElements(text, q, <<>>)
    ELSE IF text[p] = "{"
    THEN LET q == SkipWs(text, p + 1)
         IN  IF q <= Len(text) /\ text[q] = "}"
             THEN Parsed(EmptyDict, q + 1)
             ELSE ParseMembers(text, q, EmptyDict)
    ELSE ParseNumber(text, p)

ParseElements(text, p, acc) ==
    LET r == ParseValue(text, p)
        q == SkipWs(text, r.next)
    IN  IF ~r.ok \/ q > Len(text) THEN NoParse(p)
        ELSE IF text[q] = ","
        THEN ParseElements(text, SkipWs(text, q + 1), Append(acc, r.value))
        ELSE IF text[q] = "]"
        THEN Parsed(Append(acc, r.value), q + 1)
        ELSE NoParse(q)

ParseMembers(text, p, acc) ==
    IF p > Len(text) \/ ~IsString(text[p]) THEN NoParse(p)
    ELSE LET c == SkipWs(text, p + 1)
         IN  IF c > Len(text) \/ text[c] # ":" THEN NoParse(c)
             ELSE LET r == ParseValue(text, SkipWs(text, c + 1))
                      q == SkipWs(text, r.next)
                      d == DictSet(acc, StringOf(text[p]), r.value)
                  IN  IF ~r.ok \/ q > Len(text) THEN NoParse(p)
                      ELSE IF text[q] = ","
                      THEN ParseMembers(text, SkipWs(text, q + 1), d)
                      ELSE IF text[q] = "}"
                      THEN Parsed(d, q + 1)
                      ELSE NoParse(q)

\* PhysicsBridge.keyframes_from_json
keyframes_from_json(text) ==
    LET r == ParseValue(text, SkipWs(text, 1))
    IN  IF r.ok /\ SkipWs(text, r.next) > Len(text)
        THEN Return(r.value)
        ELSE Raise("JSONDecodeError")

Half(n) == Rat(n, 2)

\* The keyframe whose components are the floats around n/2.
JsonKeyframe(n) ==
    [time     |-> Half(n),
     position |-> <<Half(n), Half(-n), Half(n + 1)>>,
     rotation |-> <<Half(0), Half(-n - 1), Half(n), Half(2)>>,
     velocity |-> <<Half(-n), Half(0), Half(n)>>]

JsonKeyframes ==
    {JsonKeyframe(n) : n \in {m \in 0..MaxJsonHalves : m % 5 \in {0, 1}}}

InitJson ==
    /\ client = "None"
    /\ NoCall
    /\ InterpIdle
    /\ jkeyframes \in SeqsUpTo(JsonKeyframes, MaxJsonLen)
    /\ dumps = <<>>
    /\ loads = <<>>
    /\ StageIdle
    /\ ConfigIdle

\* The keyframes in hand: the original list, or what the last load returned.
InHand == IF Len(loads) = 0 THEN Return(jkeyframes) ELSE loads[Len(loads)]

ToJson ==
    /\ Len(dumps) = Len(loads)
    /\ Len(dumps) < MaxRoundTrips
    /\ InHand.kind = "return"
    /\ dumps' = Append(dumps, keyframes_to_json(InHand.value))
    /\ UNCHANGED <<jkeyframes, loads>>
    /\ UNCHANGED nonJsonVars

FromJson ==
    /\ Len(dumps) > Len(loads)
    /\ loads' = Append(loads, keyframes_from_json(dumps[Len(dumps)]))
    /\ UNCHANGED <<jkeyframes, dumps>>
    /\ UNCHANGED nonJsonVars

NextJson ==
    \/ ToJson
    \/ FromJson

SpecJson == InitJson /\ [][NextJson]_vars

----------------------------------------------------------------------------
(* stage_bake_simulation                                                   *)
(*                                                                         *)
(* A string the tool takes apart (a binding, a simulation id, a body id)   *)
(* is the sequence of its pieces: "/" and "body-" are pieces of their own  *)
(* and no other piece contains them or a part of them, so splitting,       *)
(* replacing and substring search on the pieces are those on the text.     *)

\* "rapier://{sim}/body-{body}"
Binding(sim, body) == <<"rapier:", "/", "/">> \o sim \o <<"/", "body-">> \o body

\* physics_binding is not set
NoBinding == None

StageSimIds == {<<"sim-", "1">>, <<"sim-", "1", "0">>}
StageBodyIds == {<<"ball">>, <<"body-", "1">>}

\* What physics_binding may hold: None, the empty string, a string without
\* any "/", and the bindings of the bodies of the simulations.
Bindings ==
    {NoBinding, Str(<<>>), Str(<<"sim-", "1">>)}
        \cup {Str(Binding(sim, body)) : sim \in StageSimIds, body \in StageBodyIds}

ObjectIds == <<"a", "b", "c", "d">>

\* scene.objects as the list of its items: ids are given out in order
Scenes ==
    UNION {[1..n -> Bindings] : n \in 0..MaxObjects}

SceneObject(id, binding) == [id |-> id, physics_binding |-> binding]

\* fps of the stage_bake_simulation calls
StageFps == {MaxFps}

\* str.split(sep), sep a single piece: the pieces between the separators
RECURSIVE SplitInto(_, _, _, _)
SplitInto(s, sep, cur, acc) ==
    IF Len(s) = 0 THEN Append(acc, cur)
    ELSE IF s[1] = sep THEN SplitInto(Tail(s), sep, <<>>, Append(acc, cur))
    ELSE SplitInto(Tail(s), sep, Append(cur, s[1]), acc)

Split(s, sep) == SplitInto(s, sep, <<>>, <<>>)

\* str.replace(old, new): every occurrence, left to right
RECURSIVE Replace(_, _, _)
Replace(s, old, new) ==
    IF Len(s) < Len(old) \/ Len(s) = 0 THEN s
    ELSE IF SubSeq(s, 1, Len(old)) = old
    THEN new \o Replace(SubSeq(s, Len(old) + 1, Len(s)), old, new)
    ELSE <<s[1]>> \o Replace(Tail(s), old, new)

\* `sub in s`
Contains(s, sub) ==
    \E i \in 0..(Len(s) - Len(sub)) : SubSeq(s, i + 1, i + Len(sub)) = sub

\* server.py 510: obj.physics_binding and simulation_id in obj.physics_binding
IsBoundObject(obj, sim) ==
    /\ obj.physics_binding # NoBinding
    /\ Len(obj.physics_binding.str) > 0
    /\ Contains(obj.physics_binding.str, sim)

RECURSIVE Filter(_, _)
Filter(objs, sim) ==
    IF Len(objs) = 0 THEN <<>>
    ELSE IF IsBoundObject(objs[1], sim)
    THEN <<objs[1]>> \o Filter(Tail(objs), sim)
    ELSE Filter(Tail(objs), sim)

Last(s) == s[Len(s)]

\* server.py 523 and 541: parts[-1].replace("body-", "")
ExtractBodyId(binding) == Replace(Last(Split(binding, "/")), <<"body-">>, <<>>)

\* server.py 518-524: the body ids of the bound objects, those of bindings
\* without a "/" left out
RECURSIVE ExtractBodyIds(_)
ExtractBodyIds(bound) ==
    IF Len(bound) = 0 THEN <<>>
    ELSE IF Len(Split(bound[1].physics_binding.str, "/")) >= 2
    THEN <<ExtractBodyId(bound[1].physics_binding.str)>>
             \o ExtractBodyIds(Tail(bound))
    ELSE ExtractBodyIds(Tail(bound))

NoObjectsBound == "ValueError: No objects bound to simulation"

AnimationPath(obj_id) == <<"/animations/", obj_id, ".json">>

BakedAnimation(obj_id, source, f, frames, path) ==
    [object_id |-> obj_id, source |-> source, fps |-> f, frames |-> frames,
     data_path |-> path]

BakeSimulationResponse(baked, total, f) ==
    [baked_objects |-> baked, total_frames |-> total, fps |-> f]

----------------------------------------------------------------------------
(* SceneManager                                                            *)
(*                                                                         *)
(* The manager holds at most one scene, SceneId; the calls also name a     *)
(* scene that was never created.  The fields of the Scene object are the   *)
(* variables objects, environment, lighting, shots and baked_animations;   *)
(* its file is the blob ScenePath of the workspace.  The JSON text of a    *)
(* scene is the tree of its values: an object is the list of its members   *)
(* (key, value) in order, None is null.                                    *)

SceneId == "scene"
SceneIdArgs == {SceneId, "ghost"}

ScenePath == <<"/scene.json">>

SceneNotFound == "ValueError: Scene not found"
ObjectNotFound == "ValueError: Object not found"
ShotNotFound == "ValueError: Shot not found"

Scene(objs, env, light, sh, baked) ==
    [objects |-> objs, environment |-> env, lighting |-> light, shots |-> sh,
     baked_animations |-> baked]

\* Scene(id=..., name=..., metadata=...)
NewScene == Scene(<<>>, DefaultEnvironment, DefaultLighting, <<>>, EmptyDict)

Shot(id) == [id |-> id]

JNull == [null |-> TRUE]
JString(s) == [string |-> s]
JNumber(n) == [number |-> n]
IsNull(j) == "null" \in DOMAIN j

\* the value of the member `key` of a JSON object
Member(ms, key) ==
    LET i == CHOOSE i \in 1..Len(ms) : ms[i][1] = key IN ms[i][2]

HasMember(ms, key) == \E i \in 1..Len(ms) : ms[i][1] = key

\* Optional[str]
DumpOptionalStr(v) == IF v = None THEN JNull ELSE JString(v.str)
LoadOptionalStr(j) == IF IsNull(j) THEN None ELSE Str(j.string)

DumpSceneObject(obj) ==
    <<<<"id", JString(obj.id)>>,
      <<"physics_binding", DumpOptionalStr(obj.physics_binding)>>>>

LoadSceneObject(ms) ==
    SceneObject(Member(ms, "id").string,
                IF HasMember(ms, "physics_binding")
                THEN LoadOptionalStr(Member(ms, "physics_binding"))
                ELSE None)

DumpBakedAnimation(a) ==
    <<<<"object_id", JString(a.object_id)>>,
      <<"source", JString(a.source)>>,
      <<"fps", JNumber(a.fps)>>,
      <<"frames", JNumber(a.frames)>>,
      <<"data_path", JString(a.data_path)>>>>

LoadBakedAnimation(ms) ==
    BakedAnimation(Member(ms, "object_id").string, Member(ms, "source").string,
                   IF HasMember(ms, "fps") THEN Member(ms, "fps").number
                   ELSE DefaultFps,
                   Member(ms, "frames").number, Member(ms, "data_path").string)

\* a dict of models kept as the list of its values: each member is named by
\* the id of its value
DumpItems(items, kind) ==
    [i \in 1..Len(items) |->
        <<items[i].id,
          IF kind = "object" THEN DumpSceneObject(items[i])
          ELSE <<<<"id", JString(items[i].id)>>>>>>]

LoadItems(ms, kind) ==
    [i \in 1..Len(ms) |->
        IF kind = "object" THEN LoadSceneObject(ms[i][2])
        ELSE Shot(Member(ms[i][2], "id").string)]

\* Scene.model_dump_json: every field, in the order of the class
model_dump_json(scene) ==
    <<<<"objects", DumpItems(scene.objects, "object")>>,
      <<"environment", <<<<"type", JString(scene.environment.type)>>>>>>,
      <<"lighting", <<<<"preset", JString(scene.lighting.preset)>>>>>>,
      <<"shots", DumpItems(scene.shots, "shot")>>,
      <<"baked_animations",
        [k \in DOMAIN scene.baked_animations |->
            DumpBakedAnimation(scene.baked_animations[k])]>>>>

\* Scene.model_validate_json: a field the text leaves out has its default
model_validate_json(ms) ==
    Scene(IF HasMember(ms, "objects")
          THEN LoadItems(Member(ms, "objects"), "object") ELSE <<>>,
          IF HasMember(ms, "environment")
          THEN Environment(Member(Member(ms, "environment"), "type").string)
          ELSE DefaultEnvironment,
          IF HasMember(ms, "lighting")
          THEN Lighting(Member(Member(ms, "lighting"), "preset").string)
          ELSE DefaultLighting,
          IF HasMember(ms, "shots")
          THEN LoadItems(Member(ms, "shots"), "shot") ELSE <<>>,
          IF HasMember(ms, "baked_animations")
          THEN [k \in DOMAIN Member(ms, "baked_animations") |->
                   LoadBakedAnimation(Member(ms, "baked_animations")[k])]
          ELSE EmptyDict)

\* d[item.id] = item on a dict kept as the list of its values: an id the
\* dict has keeps its place, a new one goes last
SetItem(items, item) ==
    IF \E i \in 1..Len(items) : items[i].id = item.id
    THEN [i \in 1..Len(items) |->
             IF items[i].id = item.id THEN item ELSE items[i]]
    ELSE Append(items, item)

HasItem(items, id) == \E i \in 1..Len(items) : items[i].id = id

Item(items, id) == items[CHOOSE i \in 1..Len(items) : items[i].id = id]

\* scene_manager.py 119
add_object(scene, obj) == [scene EXCEPT !.objects = SetItem(@, obj)]

\* scene_manager.py 131-133
set_environment(scene, env, light) ==
    [scene EXCEPT !.environment = env,
                  !.lighting = IF light # None THEN light ELSE @]

\* scene_manager.py 146
add_shot(scene, shot) == [scene EXCEPT !.shots = SetItem(@, shot)]

\* scene_manager.py 162-165
get_shot(scene, shot_id) ==
    IF ~HasItem(scene.shots, shot_id) THEN Raise(ShotNotFound)
    ELSE Return(Item(scene.shots, shot_id))

\* bind_physics that binds an object the scene does not have by making it
bind_physicsCreating(scene, object_id, binding) ==
    Return([scene EXCEPT !.objects =
               SetItem(@, SceneObject(object_id, binding))])

\* scene_manager.py 178-181
bind_physics(scene, object_id, binding) ==
    IF ~HasItem(scene.objects, object_id) THEN Raise(ObjectNotFound)
    ELSE LET obj == Item(scene.objects, object_id) IN
         Return([scene EXCEPT !.objects =
                    SetItem(@, [obj EXCEPT !.physics_binding = binding])])

\* add_baked_animation without the test for the object
add_baked_animationUnchecked(scene, object_id, animation) ==
    Return([scene EXCEPT !.baked_animations = DictSet(@, object_id, animation)])

\* scene_manager.py 198-201
add_baked_animation(scene, object_id, animation) ==
    IF ~HasItem(scene.objects, object_id) THEN Raise(ObjectNotFound)
    ELSE Return([scene EXCEPT !.baked_animations =
                    DictSet(@, object_id, animation)])

\* What the calls are made with.  Objects are as stage_add_object builds
\* them: it passes no physics_binding.
SceneObjectIds == {"a", "b"}
NewObjects == {SceneObject(id, NoBinding) : id \in SceneObjectIds}
SceneBindings ==
    {Str(Binding(<<"sim-", "1">>, <<"ball">>)),
     Str(Binding(<<"sim-", "1", "0">>, <<"ball">>))}
NewEnvironments == {Environment("solid")}
NewLightings == {None, Lighting("studio")}
NewShots == {Shot("s1")}
NewAnimation(id) ==
    BakedAnimation(id, <<"sim-", "1">>, DefaultFps, 1, AnimationPath(id))

CachedScene == Scene(objects, environment, lighting, shots, baked_animations)

\* scene_manager.py 241-258
load_scene == model_validate_json(blobs[ScenePath])

\* scene_manager.py 85-109, as far as its result goes
get_scene(scene_id) ==
    IF scene_id \in scenes THEN Return(CachedScene)
    ELSE IF scene_id \notin scene_to_namespace THEN Raise(SceneNotFound)
    ELSE Return(load_scene)

\* scene_manager.py 106-107 and the mutation of a call: the Scene object of
\* scene_id is `scene` and the cache holds it
Cache(scene_id, scene) ==
    /\ objects' = scene.objects
    /\ environment' = scene.environment
    /\ lighting' = scene.lighting
    /\ shots' = scene.shots
    /\ baked_animations' = scene.baked_animations
    /\ scenes' = scenes \cup {scene_id}

Ended(op, args, result_) == [op |-> op, args |-> args, result |-> result_]

\* The call raises before it has a scene.
Fails(op, args, raised) ==
    /\ outcome' = Ended(op, args, raised)
    /\ UNCHANGED <<sceneVars, shots, environment, lighting, scenes,
                   scene_to_namespace, calls>>

\* The call has its scene and ends without saving it: it raises, or it
\* only reads.
EndsWith(op, args, scene, result_) ==
    /\ Cache(args.scene_id, scene)
    /\ outcome' = Ended(op, args, result_)
    /\ UNCHANGED <<blobs, dirs, scene_to_namespace, calls>>

\* _save_scene given the scene as it was before the call changed it
save_sceneBeforeChange(op, args, scene) ==
    /\ Cache(args.scene_id, scene)
    /\ calls' = Append(calls, [op |-> op, args |-> args,
                                json |-> model_dump_json(
                                            get_scene(args.scene_id).value)])
    /\ UNCHANGED <<blobs, dirs, scene_to_namespace, outcome>>

\* scene_manager.py 224-239: the text of the scene is made at once; the
\* call then waits for write_namespace.
save_scene(op, args, scene) ==
    /\ Cache(args.scene_id, scene)
    /\ calls' = Append(calls, [op |-> op, args |-> args,
                                json |-> model_dump_json(scene)])
    /\ UNCHANGED <<blobs, dirs, scene_to_namespace, outcome>>

\* A call that changes the scene it gets, when it gets one.
Mutation(op, args, changed) ==
    IF get_scene(args.scene_id).kind = "raise"
    THEN Fails(op, args, get_scene(args.scene_id))
    ELSE IF changed.kind = "raise"
    THEN EndsWith(op, args, get_scene(args.scene_id).value, changed)
    ELSE save_scene(op, args, changed.value)

\* scene_manager.py 38-76: a new namespace, a new Scene and its first save.
\* Scene ids are unique: the scene is created once.  n is the number of
\* calls that may be in flight at a time.
CreateScene(n) ==
    /\ Len(calls) < n
    /\ SceneId \notin scene_to_namespace
    /\ \A i \in 1..Len(calls) : calls[i].op # "create_scene"
    /\ calls' = Append(calls, [op |-> "create_scene",
                                args |-> [scene_id |-> SceneId],
                                json |-> model_dump_json(NewScene)])
    /\ UNCHANGED <<sceneVars, shots, environment, lighting, scenes,
                   scene_to_namespace, outcome>>
    /\ UNCHANGED <<bridgeVars, interpVars, jsonVars, stageVars, configVars>>

GetScene(n) ==
    /\ Len(calls) < n
    /\ \E sid \in SceneIdArgs :
        LET args == [scene_id |-> sid]
            got  == get_scene(sid)
        IN  IF got.kind = "raise" THEN Fails("get_scene", args, got)
            ELSE EndsWith("get_scene", args, got.value, got)
    /\ UNCHANGED <<bridgeVars, interpVars, jsonVars, stageVars, configVars>>

\* scene_manager.py 111-120
AddObject(n) ==
    /\ Len(calls) < n
    /\ \E sid \in SceneIdArgs, obj \in NewObjects :
        LET got == get_scene(sid) IN
        Mutation("add_object", [scene_id |-> sid, obj |-> obj],
                 IF got.kind = "raise" THEN got
                 ELSE Return(add_object(got.value, obj)))
    /\ UNCHANGED <<bridgeVars, interpVars, jsonVars, stageVars, configVars>>

\* scene_manager.py 122-136
SetEnvironment(n) ==
    /\ Len(calls) < n
    /\ \E sid \in SceneIdArgs, env \in NewEnvironments, light \in NewLightings :
        LET got == get_scene(sid) IN
        Mutation("set_environment",
                 [scene_id |-> sid, environment |-> env, lighting |-> light],
                 IF got.kind = "raise" THEN got
                 ELSE Return(set_environment(got.value, env, light)))
    /\ UNCHANGED <<bridgeVars, interpVars, jsonVars, stageVars, configVars>>

\* scene_manager.py 138-147
AddShot(n) ==
    /\ Len(calls) < n
    /\ \E sid \in SceneIdArgs, shot \in NewShots :
        LET got == get_scene(sid) IN
        Mutation("add_shot", [scene_id |-> sid, shot |-> shot],
                 IF got.kind = "raise" THEN got
                 ELSE Return(add_shot(got.value, shot)))
    /\ UNCHANGED <<bridgeVars, interpVars, jsonVars, stageVars, configVars>>

\* scene_manager.py 149-165
GetShot(n) ==
    /\ Len(calls) < n
    /\ \E sid \in SceneIdArgs, shot \in NewShots :
        LET args == [scene_id |-> sid, shot_id |-> shot.id]
            got  == get_scene(sid)
        IN  IF got.kind = "raise" THEN Fails("get_shot", args, got)
            ELSE EndsWith("get_shot", args, got.value,
                          get_shot(got.value, shot.id))
    /\ UNCHANGED <<bridgeVars, interpVars, jsonVars, stageVars, configVars>>

\* scene_manager.py 167-183
BindPhysics(n) ==
    /\ Len(calls) < n
    /\ \E sid \in SceneIdArgs, id \in SceneObjectIds, binding \in SceneBindings :
        LET got == get_scene(sid) IN
        Mutation("bind_physics",
                 [scene_id |-> sid, object_id |-> id, physics_body_id |-> binding],
                 IF got.kind = "raise" THEN got
                 ELSE bind_physics(got.value, id, binding))
    /\ UNCHANGED <<bridgeVars, interpVars, jsonVars, stageVars, configVars>>

\* scene_manager.py 185-203
AddBakedAnimation(n) ==
    /\ Len(calls) < n
    /\ \E sid \in SceneIdArgs, id \in SceneObjectIds :
        LET got == get_scene(sid) IN
        Mutation("add_baked_animation",
                 [scene_id |-> sid, object_id |-> id,
                  animation |-> NewAnimation(id)],
                 IF got.kind = "raise" THEN got
                 ELSE add_baked_animation(got.value, id, NewAnimation(id)))
    /\ UNCHANGED <<bridgeVars, interpVars, jsonVars, stageVars, configVars>>

\* scene_manager.py 205-218
GetSceneVfs(n) ==
    /\ Len(calls) < n
    /\ \E sid \in SceneIdArgs :
        /\ outcome' = Ended("get_scene_vfs", [scene_id |-> sid],
                            IF sid \notin scene_to_namespace
                            THEN Raise(SceneNotFound)
                            ELSE Return([namespace |-> sid]))
        /\ UNCHANGED <<sceneVars, shots, environment, lighting, scenes,
                       scene_to_namespace, calls>>
    /\ UNCHANGED <<bridgeVars, interpVars, jsonVars, stageVars, configVars>>

Remove(s, i) == SubSeq(s, 1, i - 1) \o SubSeq(s, i + 1, Len(s))

\* The write of one of the waiting calls lands and the call ends: the file
\* holds the text the call made (scene_manager.py 235-239); create_scene
\* then enters the scene into the cache and the map (79-80).  The store
\* orders the writes of different calls in no way.
WriteLands ==
    /\ \E i \in 1..Len(calls) :
        /\ blobs' = DictSet(blobs, ScenePath, calls[i].json)
        /\ outcome' = Ended(calls[i].op, calls[i].args, Return(None))
        /\ IF calls[i].op = "create_scene"
           THEN /\ scenes' = scenes \cup {calls[i].args.scene_id}
                /\ scene_to_namespace' =
                       scene_to_namespace \cup {calls[i].args.scene_id}
           ELSE UNCHANGED <<scenes, scene_to_namespace>>
        /\ calls' = Remove(calls, i)
    /\ UNCHANGED <<objects, baked_animations, dirs, shots, environment, lighting>>
    /\ UNCHANGED <<bridgeVars, interpVars, jsonVars, stageVars, configVars>>

\* The cache loses its scenes (as in test_scene_persistence) while no call
\* is in flight; the next get_scene loads the scene from its file.
DropCache ==
    /\ calls = <<>>
    /\ scenes # {}
    /\ scenes' = {}
    /\ UNCHANGED <<sceneVars, shots, environment, lighting, scene_to_namespace,
                   calls, outcome>>
    /\ UNCHANGED <<bridgeVars, interpVars, jsonVars, stageVars, configVars>>

InitScene ==
    /\ client = "None"
    /\ NoCall
    /\ InterpIdle
    /\ JsonIdle
    /\ StageIdle
    /\ ConfigIdle

\* One caller: a call is made when the one before has ended.
NextScene ==
    \/ CreateScene(1)
    \/ GetScene(1)
    \/ AddObject(1)
    \/ SetEnvironment(1)
    \/ AddShot(1)
    \/ GetShot(1)
    \/ BindPhysics(1)
    \/ AddBakedAnimation(1)
    \/ GetSceneVfs(1)
    \/ WriteLands
    \/ DropCache

SpecScene == InitScene /\ [][NextScene]_vars

\* Coroutines of one event loop: up to MaxInFlight calls wait for their
\* writes at a time.
NextTasks ==
    \/ CreateScene(MaxInFlight)
    \/ AddObject(MaxInFlight)
    \/ BindPhysics(MaxInFlight)
    \/ WriteLands

SpecTasks == InitScene /\ [][NextTasks]_vars

----------------------------------------------------------------------------
(* stage_bake_simulation: the call                                         *)

\* The answers of the service under SpecStage
StageResponses ==
    FewResponses
        \cup {[post |-> "ok", status |-> 200, json |-> [frames |-> <<FrameA>>]]}

NoStageCall ==
    /\ spc = "idle"
    /\ stage_args = NoResult
    /\ bound_objects = <<>>
    /\ stage_baked = EmptyDict
    /\ sidx = 0
    /\ total_frames = 0
    /\ baked_object_ids = <<>>
    /\ stage_result = NoResult
    /\ at_call = NoResult

\* A scene whose objects were added and bound before, nothing baked yet:
\* the cache holds it and its file is up to date.
InitStage ==
    /\ client = "None"
    /\ NoCall
    /\ InterpIdle
    /\ JsonIdle
    /\ \E scene \in Scenes :
        objects = [i \in 1..Len(scene) |-> SceneObject(ObjectIds[i], scene[i])]
    /\ baked_animations = EmptyDict
    /\ shots = <<>>
    /\ environment = DefaultEnvironment
    /\ lighting = DefaultLighting
    /\ scenes = {SceneId}
    /\ scene_to_namespace = {SceneId}
    /\ calls = <<>>
    /\ outcome = NoResult
    /\ blobs = DictSet(EmptyDict, ScenePath, model_dump_json(CachedScene))
    /\ dirs = {}
    /\ NoStageCall
    /\ ConfigIdle

\* server.py 504-530, up to the first await of the bridge: the bound
\* objects, the error when there are none, the body ids, a new bridge, its
\* __aenter__ and the start of bake_simulation.
StageCall ==
    /\ spc = "idle"
    /\ pc = "idle"
    /\ \E sim \in StageSimIds, f \in StageFps :
        LET bound == Filter(objects, sim) IN
        /\ stage_args' = [simulation_id |-> sim, fps |-> f, duration |-> NoDuration]
        /\ at_call' = [objects |-> objects, baked_animations |-> baked_animations,
                       blobs |-> blobs, dirs |-> dirs]
        /\ IF Len(bound) = 0
           THEN /\ spc' = "raised"
                /\ stage_result' = Raise(NoObjectsBound)
                /\ UNCHANGED <<bound_objects, bridgeVars>>
           ELSE /\ spc' = "baking"
                /\ bound_objects' = bound
                /\ client' = "open"
                /\ BakeBegin(sim, ExtractBodyIds(bound), f, NoDuration, "open")
                /\ UNCHANGED stage_result
    /\ UNCHANGED <<stage_baked, sidx, total_frames, baked_object_ids>>
    /\ UNCHANGED <<sceneVars, interpVars, jsonVars, configVars, managerVars>>

\* The `async with` block going on with the bodies baked so far when the
\* bake raised
StageExitKeepingPartial ==
    /\ spc = "baking"
    /\ pc \in {"returned", "raised"}
    /\ client' = "closed"
    /\ spc' = "mkdir"
    /\ stage_baked' = IF result.kind = "raise" THEN baked_data ELSE result.value
    /\ UNCHANGED stage_result
    /\ UNCHANGED <<pc, simulation_id, body_ids, fps, duration, idx,
                   baked_data, requests, responses, result>>
    /\ UNCHANGED <<stage_args, bound_objects, sidx, total_frames,
                   baked_object_ids, at_call>>
    /\ UNCHANGED <<sceneVars, interpVars, jsonVars, configVars, managerVars>>

\* A session that is closed only when the bake has returned
StageExitLeakingOnError ==
    /\ spc = "baking"
    /\ pc \in {"returned", "raised"}
    /\ IF result.kind = "raise"
       THEN /\ spc' = "raised"
            /\ stage_result' = result
            /\ UNCHANGED <<stage_baked, client>>
       ELSE /\ spc' = "mkdir"
            /\ stage_baked' = result.value
            /\ client' = "closed"
            /\ UNCHANGED stage_result
    /\ UNCHANGED <<pc, simulation_id, body_ids, fps, duration, idx,
                   baked_data, requests, responses, result>>
    /\ UNCHANGED <<stage_args, bound_objects, sidx, total_frames,
                   baked_object_ids, at_call>>
    /\ UNCHANGED <<sceneVars, interpVars, jsonVars, configVars, managerVars>>

\* server.py 529-530: bake_simulation is over; __aexit__ closes the client
\* and the outcome of the bake is the outcome of the `async with` block.
StageExit ==
    /\ spc = "baking"
    /\ pc \in {"returned", "raised"}
    /\ client' = "closed"
    /\ IF result.kind = "raise"
       THEN /\ spc' = "raised"
            /\ stage_result' = result
            /\ UNCHANGED stage_baked
       ELSE /\ spc' = "mkdir"
            /\ stage_baked' = result.value
            /\ UNCHANGED stage_result
    /\ UNCHANGED <<pc, simulation_id, body_ids, fps, duration, idx,
                   baked_data, requests, responses, result>>
    /\ UNCHANGED <<stage_args, bound_objects, sidx, total_frames,
                   baked_object_ids, at_call>>
    /\ UNCHANGED <<sceneVars, interpVars, jsonVars, configVars, managerVars>>

\* server.py 533-537: the workspace of the scene and its /animations
StageMkdir ==
    /\ spc = "mkdir"
    /\ dirs' = dirs \cup {"/animations"}
    /\ total_frames' = 0
    /\ baked_object_ids' = <<>>
    /\ sidx' = 0
    /\ spc' = "storing"
    /\ UNCHANGED <<stage_args, bound_objects, stage_baked, stage_result, at_call>>
    /\ UNCHANGED <<objects, baked_animations, blobs>>
    /\ UNCHANGED <<bridgeVars, interpVars, jsonVars, configVars, managerVars>>

\* server.py 539-549: the next bound object; when its body was baked, the
\* frame count and the keyframe file.
StageWrite ==
    /\ spc = "storing"
    /\ sidx < Len(bound_objects)
    /\ LET obj     == bound_objects[sidx + 1]
           body_id == ExtractBodyId(obj.physics_binding.str)
       IN  IF body_id \in DOMAIN stage_baked
           THEN /\ total_frames' = Max({total_frames, Len(stage_baked[body_id])})
                /\ blobs' = DictSet(blobs, AnimationPath(obj.id),
                                    keyframes_to_json_ints(stage_baked[body_id]))
                /\ spc' = "adding"
                /\ UNCHANGED sidx
           ELSE /\ sidx' = sidx + 1
                /\ UNCHANGED <<total_frames, blobs, spc>>
    /\ UNCHANGED <<stage_args, bound_objects, stage_baked, baked_object_ids,
                   stage_result, at_call>>
    /\ UNCHANGED <<objects, baked_animations, dirs>>
    /\ UNCHANGED <<bridgeVars, interpVars, jsonVars, configVars, managerVars>>

\* server.py 551-562 with scene_manager.py 185-203: the BakedAnimation of
\* the object is added to the scene, the scene is saved and the id of the
\* object is added to the baked ids.
StageAdd ==
    /\ spc = "adding"
    /\ LET obj       == bound_objects[sidx + 1]
           body_id   == ExtractBodyId(obj.physics_binding.str)
           animation == BakedAnimation(obj.id, stage_args.simulation_id,
                                       stage_args.fps,
                                       Len(stage_baked[body_id]),
                                       AnimationPath(obj.id))
           added     == add_baked_animation(CachedScene, obj.id, animation)
       IN  IF added.kind = "return"
           THEN /\ baked_animations' = added.value.baked_animations
                /\ blobs' = DictSet(blobs, ScenePath,
                                    model_dump_json(added.value))
                /\ baked_object_ids' = Append(baked_object_ids, obj.id)
                /\ sidx' = sidx + 1
                /\ spc' = "storing"
                /\ UNCHANGED stage_result
           ELSE /\ spc' = "raised"
                /\ stage_result' = added
                /\ UNCHANGED <<baked_animations, blobs, baked_object_ids, sidx>>
    /\ UNCHANGED <<stage_args, bound_objects, stage_baked, total_frames, at_call>>
    /\ UNCHANGED <<objects, dirs>>
    /\ UNCHANGED <<bridgeVars, interpVars, jsonVars, configVars, managerVars>>

\* server.py 564-570
StageReturn ==
    /\ spc = "storing"
    /\ sidx = Len(bound_objects)
    /\ spc' = "returned"
    /\ stage_result' = Return(BakeSimulationResponse(baked_object_ids, total_frames,
                                                     stage_args.fps))
    /\ UNCHANGED <<stage_args, bound_objects, stage_baked, sidx, total_frames,
                   baked_object_ids, at_call>>
    /\ UNCHANGED <<sceneVars, bridgeVars, interpVars, jsonVars, configVars,
                   managerVars>>

\* The call is over: its frame and its bridge are gone, the scene stays.
StageEnds ==
    /\ spc \in {"returned", "raised"}
    /\ spc' = "idle"
    /\ stage_args' = NoResult
    /\ bound_objects' = <<>>
    /\ stage_baked' = EmptyDict
    /\ sidx' = 0
    /\ total_frames' = 0
    /\ baked_object_ids' = <<>>
    /\ stage_result' = NoResult
    /\ at_call' = NoResult
    /\ client' = "None"
    /\ pc' = "idle"
    /\ simulation_id' = "sim-001"
    /\ body_ids' = <<>>
    /\ fps' = 1
    /\ duration' = NoDuration
    /\ idx' = 0
    /\ baked_data' = EmptyDict
    /\ requests' = <<>>
    /\ responses' = <<>>
    /\ result' = NoResult
    /\ UNCHANGED <<sceneVars, interpVars, jsonVars, configVars, managerVars>>

NextStage ==
    \/ StageCall
    \/ Post
    \/ Respond(StageResponses)
    \/ BakeReturn
    \/ StageExit
    \/ StageMkdir
    \/ StageWrite
    \/ StageAdd
    \/ StageReturn
    \/ StageEnds

SpecStage == InitStage /\ [][NextStage]_vars

----------------------------------------------------------------------------
(* Config and the construction and opening of a bridge                     *)
(*                                                                         *)
(* A URL is a string of one piece, or the empty string; the text of        *)
(* RAPIER_TIMEOUT is the sequence of its characters.                       *)

\* physics_server_url: not given, empty, or a URL
UrlArgs == {None, Str(<<>>), Str(<<"http://arg:9000">>)}

ServiceUrls == {None, Str(<<>>), Str(<<"http://service:9000">>)}
AliasUrls == {None, Str(<<>>), Str(<<"http://custom:8080">>)}

\* Texts of RAPIER_TIMEOUT that are numbers, with the number each one is
NumericTexts ==
    {[text |-> <<"6", "0", ".", "5">>, value |-> Rat(121, 2)],
     [text |-> <<"5">>, value |-> Rat(5, 1)],
     [text |-> <<" ", "7", "\n">>, value |-> Rat(7, 1)],
     [text |-> <<"-", "1", ".", "5">>, value |-> Rat(-3, 2)],
     [text |-> <<".", "5">>, value |-> Rat(1, 2)],
     [text |-> <<"1", "e", "1">>, value |-> Rat(10, 1)]}

\* Texts of RAPIER_TIMEOUT that are not numbers
NonNumericTexts ==
    {<<>>,
     <<"n", "o", "t", "-", "a", "-", "n", "u", "m", "b", "e", "r">>,
     <<"3", "0", "s">>,
     <<"1", ".", "2", ".", "3">>}

Timeouts ==
    {None} \cup {Str(c.text) : c \in NumericTexts}
           \cup {Str(t) : t \in NonNumericTexts}

Environments ==
    [RAPIER_SERVICE_URL : ServiceUrls, RAPIER_URL : AliasUrls,
     RAPIER_TIMEOUT : Timeouts]

\* os.getenv(name) and os.getenv(name, default)
Getenv(env, name) == env[name]
GetenvOr(env, name, default) == IF env[name] = None THEN default ELSE env[name]

\* Python truthiness of an Optional[str]: None and "" are falsy
TruthyStr(v) == v # None /\ Len(v.str) > 0

\* a or b
Or(a, b) == IF TruthyStr(a) THEN a ELSE b

\* get_rapier_url mutated to ask for the alias first
get_rapier_urlAliasFirst(env) ==
    Or(Or(Getenv(env, "RAPIER_URL"), Getenv(env, "RAPIER_SERVICE_URL")),
       DEFAULT_RAPIER_URL)

\* Config.get_rapier_url
get_rapier_url(env) ==
    Or(Or(Getenv(env, "RAPIER_SERVICE_URL"), Getenv(env, "RAPIER_URL")),
       DEFAULT_RAPIER_URL)

RECURSIVE RSkipWs(_, _)
RSkipWs(text, p) ==
    IF p >= 1 /\ text[p] \in Whitespace THEN RSkipWs(text, p - 1) ELSE p

\* str.strip()
Strip(text) == SubSeq(text, SkipWs(text, 1), RSkipWs(text, Len(text)))

\* float(text): whitespace around, a sign, digits with an optional
\* fraction, an optional exponent; anything else is a ValueError
PyFloat(text) ==
    LET s       == Strip(text)
        At(p, cs) == p <= Len(s) /\ s[p] \in cs
        neg     == At(1, {"-"})
        p0      == IF At(1, {"+", "-"}) THEN 2 ELSE 1
        ie      == ScanDigits(s, p0)
        hasDot  == At(ie, {"."})
        fs      == ie + 1
        fe      == IF hasDot THEN ScanDigits(s, fs) ELSE ie
        fracLen == IF hasDot THEN fe - fs ELSE 0
        mant    == IF hasDot
                   THEN DigitsValue(s, fs, fe, DigitsValue(s, p0, ie, 0))
                   ELSE DigitsValue(s, p0, ie, 0)
        hasExp  == At(fe, {"e", "E"})
        expNeg  == At(fe + 1, {"-"})
        ed      == IF At(fe + 1, {"+", "-"}) THEN fe + 2 ELSE fe + 1
        ee      == ScanDigits(s, ed)
        exp     == IF hasExp THEN DigitsValue(s, ed, ee, 0) ELSE 0
        end     == IF hasExp THEN ee ELSE fe
        valid   == /\ ie > p0 \/ fracLen > 0
                   /\ hasExp => ee > ed
                   /\ end = Len(s) + 1
        sgn     == IF neg THEN -1 ELSE 1
    IN  IF ~valid THEN Raise("ValueError")
        ELSE IF expNeg
        THEN Return(Rat(sgn * mant, Pow10(fracLen) * Pow10(exp)))
        ELSE Return(Rat(sgn * mant * Pow10(exp), Pow10(fracLen)))

DefaultTimeoutText == Str(<<"3", "0", ".", "0">>)

\* get_rapier_timeout mutated to lack the except clause
get_rapier_timeoutUnguarded(env) ==
    PyFloat(GetenvOr(env, "RAPIER_TIMEOUT", DefaultTimeoutText).str)

\* Config.get_rapier_timeout
get_rapier_timeout(env) ==
    LET r == PyFloat(GetenvOr(env, "RAPIER_TIMEOUT", DefaultTimeoutText).str)
    IN  IF r = Raise("ValueError") THEN Return(Rat(30, 1)) ELSE r

InitConfig ==
    /\ client = "None"
    /\ NoCall
    /\ InterpIdle
    /\ JsonIdle
    /\ StageIdle
    /\ environ \in Environments
    /\ url_arg = None
    /\ physics_server_url = None
    /\ timeout = NoResult
    /\ cpc = "none"
    /\ env_at_init = None

\* PhysicsBridge.__init__(physics_server_url)
Construct ==
    /\ cpc = "none"
    /\ \E arg \in UrlArgs :
        /\ url_arg' = arg
        /\ physics_server_url' = Or(arg, get_rapier_url(environ))
    /\ env_at_init' = environ
    /\ cpc' = "constructed"
    /\ UNCHANGED <<environ, timeout>>
    /\ UNCHANGED nonConfigVars

\* The environment changes: one variable is set, changed or deleted.
SetEnv ==
    /\ cpc = "constructed"
    /\ \E e \in Environments :
        /\ Cardinality({n \in DOMAIN environ : e[n] # environ[n]}) = 1
        /\ environ' = e
    /\ UNCHANGED <<url_arg, physics_server_url, timeout, cpc, env_at_init>>
    /\ UNCHANGED nonConfigVars

\* PhysicsBridge.__aenter__
Enter ==
    /\ cpc = "constructed"
    /\ cpc' = "entered"
    /\ IF TruthyStr(physics_server_url)
       THEN /\ timeout' = get_rapier_timeout(environ)
            /\ client' = IF timeout'.kind = "return" THEN "open" ELSE client
       ELSE UNCHANGED <<timeout, client>>
    /\ UNCHANGED <<environ, url_arg, physics_server_url, env_at_init>>
    /\ UNCHANGED <<pc, simulation_id, body_ids, fps, duration, idx,
                   baked_data, requests, responses, result>>
    /\ UNCHANGED <<interpVars, jsonVars, sceneVars, stageVars, managerVars>>

NextConfig ==
    \/ Construct
    \/ SetEnv
    \/ Enter

SpecConfig == InitConfig /\ [][NextConfig]_vars

----------------------------------------------------------------------------
(* Vocabulary of the properties                                            *)

\* The response is a transport failure: the POST raised, or the status is
\* not 2xx.
IsTransportFailure(r) ==
    \/ r.post \in TransportExceptions
    \/ r.post = "ok" /\ r.status # 200

TransportErrorOf(r) == IF r.post # "ok" THEN r.post ELSE "HTTPStatusError"

HasJson(r) == ~IsTransportFailure(r) /\ "json" \in DOMAIN r

\* The frames of a JSON answer, none when it has no "frames".
FramesOf(r) == IF "frames" \in DOMAIN r.json THEN r.json.frames ELSE <<>>

LacksRequired(frame) ==
    \/ "time" \notin DOMAIN frame
    \/ "position" \notin DOMAIN frame
    \/ "orientation" \notin DOMAIN frame

HasIncompleteFrame(r) ==
    /\ HasJson(r)
    /\ \E k \in 1..Len(FramesOf(r)) : LacksRequired(FramesOf(r)[k])

\* Timestamps never decrease along the list.
SortedByTime(ks) == \A i \in 1..(Len(ks) - 1) : ks[i].time <= ks[i + 1].time

\* The tuple that carries exactly the values of keyframe kf.
ValuesOf(kf) ==
    [kind |-> "return",
     value |-> <<[x |-> [num |-> kf.position[1], den |-> 1],
                  y |-> [num |-> kf.position[2], den |-> 1],
                  z |-> [num |-> kf.position[3], den |-> 1]],
                 [x |-> [num |-> kf.rotation[1], den |-> 1],
                  y |-> [num |-> kf.rotation[2], den |-> 1],
                  z |-> [num |-> kf.rotation[3], den |-> 1],
                  w |-> [num |-> kf.rotation[4], den |-> 1]],
                 [x |-> [num |-> kf.velocity[1], den |-> 1],
                  y |-> [num |-> kf.velocity[2], den |-> 1],
                  z |-> [num |-> kf.velocity[3], den |-> 1]]>>]

\* i is the last position of body_ids that names body_ids[i].
LastFor(i) == \A j \in (i + 1)..Len(body_ids) : body_ids[j] # body_ids[i]

----------------------------------------------------------------------------
\* C1: a transport failure on a body fetch ends the call with that very
\* error and no mapping, also when earlier bodies were fetched; it is the
\* last thing the call does on the wire: no request follows it.
C1_TransportFailureAbortsBake ==
    \A i \in 1..Len(responses) :
        IsTransportFailure(responses[i]) =>
            /\ i = Len(responses)
            /\ pc = "raised"
            /\ result = [kind |-> "raise", exc |-> TransportErrorOf(responses[i])]
            /\ result.exc \in HTTPErrors
            /\ "value" \notin DOMAIN result
            /\ Len(requests) = i

\* The second fetch fails after the first body was fetched with frames.
C1_Witness ==
    /\ pc = "raised"
    /\ Len(body_ids) = 2
    /\ Len(responses) = 2
    /\ responses[2] = [post |-> "ok", status |-> 500]
    /\ body_ids[1] \in DOMAIN baked_data
    /\ baked_data[body_ids[1]] # <<>>

\* C2: on a bridge whose session was never opened every bake_simulation
\* call ends with the 'Physics client not initialized' ValueError, whatever
\* its arguments, and posts nothing.
C2_UninitializedClientRaises ==
    client = "None" =>
        /\ pc \in {"idle", "raised"}
        /\ pc = "raised" =>
              result = [kind |-> "raise",
                        exc |-> "ValueError: Physics client not initialized"]
        /\ requests = <<>>
        /\ responses = <<>>

C2_Witness ==
    /\ client = "None"
    /\ pc = "raised"
    /\ Len(body_ids) = 2
    /\ fps = 2
    /\ duration = [num |-> 3, den |-> 2]

\* C3: requests go out one at a time in body_ids order, request i after
\* answer i-1 was received and converted; request i names the simulation
\* id of the call and body_ids[i] and carries dt = 1/fps; a call that
\* returns has posted exactly len(body_ids) requests, none and an empty
\* mapping for an empty body_ids.
C3_SequentialRequestsInOrder ==
    /\ \A i \in 1..Len(requests) :
          /\ i <= Len(body_ids)
          /\ requests[i].path =
                <<"simulations", simulation_id, "bodies", body_ids[i], "trajectory">>
          /\ requests[i].json.dt.num = 1
          /\ requests[i].json.dt.den = fps
    /\ pc = "awaiting" => Len(requests) = idx + 1 /\ Len(responses) = idx
    /\ pc = "loop" => Len(requests) = idx /\ Len(responses) = idx
    /\ idx = Cardinality({i \in 1..Len(responses) :
                            HandleResponse(responses[i]).raised = "none"})
    /\ pc = "returned" => Len(requests) = Len(body_ids)
    /\ (pc = "returned" /\ body_ids = <<>>) =>
          requests = <<>> /\ result = [kind |-> "return", value |-> <<>>]

C3_Witness ==
    /\ pc = "returned"
    /\ body_ids = <<"body2", "body1">>
    /\ simulation_id = "sim-002"
    /\ fps = 3
    /\ Len(requests) = 2

\* C4: with a duration given, every request carries
\* steps = round(duration * fps).
C4_StepsAreRounded ==
    \A i \in 1..Len(requests) :
        (duration # NoDuration /\ duration.num > 0) =>
            requests[i].json.steps = Round(duration.num * fps, duration.den)

C6_NoEmptySequence ==
    pc = "returned" =>
        \A b \in DOMAIN result.value : result.value[b] # <<>>

\* C6 amended: after a successful bake the sequence of every body has as
\* many keyframes as the answer for that body had frames; an answer with
\* zero frames or without a frames list gives an empty sequence.
C6_SequenceLengthIsFrameCount ==
    pc = "returned" =>
        \A i \in 1..Len(body_ids) :
            LastFor(i) =>
                /\ HasJson(responses[i])
                /\ Len(result.value[body_ids[i]]) = Len(FramesOf(responses[i]))
                /\ "frames" \notin DOMAIN responses[i].json =>
                      result.value[body_ids[i]] = <<>>

\* One body answered without a frames list, the other with frames.
C6_Witness ==
    /\ pc = "returned"
    /\ Len(body_ids) = 2
    /\ "frames" \notin DOMAIN responses[1].json
    /\ result.value[body_ids[1]] = <<>>
    /\ Len(result.value[body_ids[2]]) = 2

\* C7: a frame without time, position or orientation ends the call with
\* KeyError, which is no transport error; nothing is returned, so no
\* keyframe with a substituted default and no partial mapping.
C7_IncompleteFrameIsDecodeFailure ==
    \A i \in 1..Len(responses) :
        HasIncompleteFrame(responses[i]) =>
            /\ i = Len(responses)
            /\ pc = "raised"
            /\ result = [kind |-> "raise", exc |-> "KeyError"]
            /\ result.exc \notin HTTPErrors
            /\ "value" \notin DOMAIN result

\* The second answer has a complete frame followed by one without
\* orientation; the first body was already baked.
C7_Witness ==
    /\ pc = "raised"
    /\ Len(responses) = 2
    /\ HasIncompleteFrame(responses[2])
    /\ Len(FramesOf(responses[2])) = 2
    /\ "orientation" \notin DOMAIN FramesOf(responses[2])[2]
    /\ baked_data # <<>>

\* C8: the sequence of a body has one keyframe per frame of the answer,
\* in the answer's order; keyframe k has frame k's time and position, its
\* rotation is frame k's orientation and its velocity frame k's velocity,
\* [0,0,0] when the frame has none.
C8_KeyframePerFrameInOrder ==
    pc = "returned" =>
        \A i \in 1..Len(body_ids) :
            LastFor(i) =>
                LET frames == FramesOf(responses[i])
                    ks == result.value[body_ids[i]]
                IN  /\ Len(ks) = Len(frames)
                    /\ \A k \in 1..Len(frames) :
                          /\ DOMAIN ks[k] = {"time", "position", "rotation", "velocity"}
                          /\ ks[k].time = frames[k].time
                          /\ ks[k].position = frames[k].position
                          /\ ks[k].rotation = frames[k].orientation
                          /\ ks[k].velocity =
                                IF "velocity" \in DOMAIN frames[k]
                                THEN frames[k].velocity
                                ELSE <<0, 0, 0>>

\* Two frames in descending time order, the first without velocity.
C8_Witness ==
    /\ pc = "returned"
    /\ body_ids = <<"body1">>
    /\ FramesOf(responses[1]) = <<FrameB, FrameA>>
    /\ result.value["body1"][1].time = 1
    /\ result.value["body1"][1].velocity = <<0, 0, 0>>
    /\ result.value["body1"][2].velocity = <<1, 0, 1>>

\* C9: the keys of the returned mapping are exactly the ids in body_ids,
\* and the entry of an id is the conversion of the answer to a request
\* posted for that id.
C9_MappingKeysAreBodyIds ==
    pc = "returned" =>
        /\ DOMAIN result.value = {body_ids[i] : i \in 1..Len(body_ids)}
        /\ \A b \in DOMAIN result.value :
              \E i \in 1..Len(requests) :
                  /\ requests[i].path[4] = b
                  /\ HasJson(responses[i])
                  /\ Len(result.value[b]) = Len(FramesOf(responses[i]))
                  /\ \A k \in 1..Len(result.value[b]) :
                        /\ result.value[b][k].time = FramesOf(responses[i])[k].time
                        /\ result.value[b][k].position = FramesOf(responses[i])[k].position

\* Two distinct bodies with different answers.
C9_Witness ==
    /\ pc = "returned"
    /\ body_ids = <<"body1", "body2">>
    /\ result.value["body1"] # result.value["body2"]
    /\ result.value["body1"] # <<>>
    /\ result.value["body2"] # <<>>

\* C10 as stated: on a non-empty list with non-decreasing timestamps, the
\* query at the timestamp of any sample i returns exactly sample i's
\* position, rotation and velocity.
C10_ExactAtEverySample ==
    (ipc = "done" /\ keyframes # <<>> /\ SortedByTime(keyframes)) =>
        \A i \in 1..Len(keyframes) :
            keyframes[i].time = time => pose = ValuesOf(keyframes[i])

\* C10 amended: on such a list the query at the timestamp of sample i
\* returns, unblended, the values of the first sample that has this
\* timestamp; they are sample i's when no earlier sample shares it.
C10_ExactAtFirstSampleOfTimestamp ==
    (ipc = "done" /\ keyframes # <<>> /\ SortedByTime(keyframes)) =>
        \A i \in 1..Len(keyframes) :
            keyframes[i].time = time =>
                /\ \E j \in 1..i :
                      /\ keyframes[j].time = time
                      /\ \A h \in 1..(j - 1) : keyframes[h].time # time
                      /\ pose = ValuesOf(keyframes[j])
                /\ (\A h \in 1..(i - 1) : keyframes[h].time # time) =>
                      pose = ValuesOf(keyframes[i])

\* The query hits a timestamp two samples with different values share,
\* after an earlier sample and before a later one.
C10_Witness ==
    /\ ipc = "done"
    /\ Len(keyframes) = 3
    /\ SortedByTime(keyframes)
    /\ keyframes[1].time < keyframes[2].time
    /\ keyframes[2].time = keyframes[3].time
    /\ keyframes[2].position # keyframes[3].position
    /\ time = keyframes[3].time
    /\ pose = ValuesOf(keyframes[2])

\* C11: on a non-empty sorted list a query below the first timestamp
\* returns the first sample's values and a query above the last timestamp
\* the last sample's values, unchanged.
C11_ClampedOutsideRange ==
    (ipc = "done" /\ keyframes # <<>> /\ SortedByTime(keyframes)) =>
        /\ time < keyframes[1].time => pose = ValuesOf(keyframes[1])
        /\ time > keyframes[Len(keyframes)].time =>
              pose = ValuesOf(keyframes[Len(keyframes)])

\* A query past the last of three samples whose values differ from the
\* first's.
C11_Witness ==
    /\ ipc = "done"
    /\ Len(keyframes) = 3
    /\ SortedByTime(keyframes)
    /\ time > keyframes[3].time
    /\ keyframes[3].position # keyframes[1].position
    /\ keyframes[3].position # keyframes[2].position
    /\ pose = ValuesOf(keyframes[3])

\* Component c of the result is b + (n/d) * (a - b).
IsBlend(c, b, a, n, d) == c.den > 0 /\ c.num * d = (b * d + n * (a - b)) * c.den

\* C12: on a sorted list a query strictly between the timestamps of two
\* adjacent samples i and i+1 blends exactly these two: every component
\* of position, rotation and velocity is seq[i] + t * (seq[i+1] - seq[i])
\* with t = (time - t_i) / (t_i+1 - t_i); at the midpoint the position is
\* (p0 + p1) / 2.
C12_LinearBlendOfNeighbours ==
    (ipc = "done" /\ SortedByTime(keyframes)) =>
        \A i \in 1..(Len(keyframes) - 1) :
            (keyframes[i].time < time /\ time < keyframes[i + 1].time) =>
                LET b == keyframes[i]
                    a == keyframes[i + 1]
                    n == time - b.time
                    d == a.time - b.time
                    v == pose.value
                IN  /\ pose.kind = "return"
                    /\ IsBlend(v[1].x, b.position[1], a.position[1], n, d)
                    /\ IsBlend(v[1].y, b.position[2], a.position[2], n, d)
                    /\ IsBlend(v[1].z, b.position[3], a.position[3], n, d)
                    /\ IsBlend(v[2].x, b.rotation[1], a.rotation[1], n, d)
                    /\ IsBlend(v[2].y, b.rotation[2], a.rotation[2], n, d)
                    /\ IsBlend(v[2].z, b.rotation[3], a.rotation[3], n, d)
                    /\ IsBlend(v[2].w, b.rotation[4], a.rotation[4], n, d)
                    /\ IsBlend(v[3].x, b.velocity[1], a.velocity[1], n, d)
                    /\ IsBlend(v[3].y, b.velocity[2], a.velocity[2], n, d)
                    /\ IsBlend(v[3].z, b.velocity[3], a.velocity[3], n, d)
                    /\ 2 * n = d =>
                          /\ 2 * v[1].x.num = (b.position[1] + a.position[1]) * v[1].x.den
                          /\ 2 * v[1].y.num = (b.position[2] + a.position[2]) * v[1].y.den
                          /\ 2 * v[1].z.num = (b.position[3] + a.position[3]) * v[1].z.den

\* A query a third of the way between the second and third of three
\* samples with different values.
C12_Witness ==
    /\ ipc = "done"
    /\ Len(keyframes) = 3
    /\ SortedByTime(keyframes)
    /\ keyframes[2].time = 0
    /\ keyframes[3].time = 3
    /\ time = 1
    /\ keyframes[2].position = <<1, 2, 3>>
    /\ keyframes[3].position = <<0, -1, 5>>
    /\ pose.kind = "return"
    /\ pose.value[1].x = [num |-> 2, den |-> 3]
    /\ pose.value[1].y = [num |-> 1, den |-> 1]

\* C13: on an empty list every query returns position (0,0,0), rotation
\* (0,0,0,1) and velocity (0,0,0).
C13_EmptyGivesIdentityPose ==
    (ipc = "done" /\ keyframes = <<>>) =>
        pose = [kind |-> "return",
                value |-> <<[x |-> [num |-> 0, den |-> 1],
                             y |-> [num |-> 0, den |-> 1],
                             z |-> [num |-> 0, den |-> 1]],
                            [x |-> [num |-> 0, den |-> 1],
                             y |-> [num |-> 0, den |-> 1],
                             z |-> [num |-> 0, den |-> 1],
                             w |-> [num |-> 1, den |-> 1]],
                            [x |-> [num |-> 0, den |-> 1],
                             y |-> [num |-> 0, den |-> 1],
                             z |-> [num |-> 0, den |-> 1]]>>]

C13_Witness ==
    /\ ipc = "done"
    /\ keyframes = <<>>
    /\ time = 2

\* C14: for every list, sorted or not, with or without repeated
\* timestamps, and every time the call returns a pose (no division by
\* zero); when the before and after samples it chose have equal
\* timestamps it returns before's values.
C14_TotalNoZeroDivision ==
    ipc = "done" =>
        /\ pose.kind = "return"
        /\ Len(pose.value) = 3
        /\ LET bi == BeforeIndex(keyframes, time)
               ai == AfterIndex(keyframes, time)
           IN  (keyframes # <<>> /\ bi # 0 /\ ai # 0
                  /\ keyframes[bi].time = keyframes[ai].time) =>
                   pose = ValuesOf(keyframes[bi])

\* An unsorted list with a repeated timestamp, queried at it.
C14_Witness ==
    /\ ipc = "done"
    /\ Len(keyframes) = 3
    /\ ~SortedByTime(keyframes)
    /\ keyframes[1].time = time
    /\ keyframes[2].time = time
    /\ keyframes[3].time < time
    /\ BeforeIndex(keyframes, time) # 0
    /\ AfterIndex(keyframes, time) # 0
    /\ pose.kind = "return"

----------------------------------------------------------------------------
\* C15: for every keyframe sequence ks, keyframes_from_json(
\* keyframes_to_json(ks)) equals ks, and applying the round trip again
\* yields the same sequence and the same text: every load so far returned
\* the original list and every dump so far produced the first text.
C15_RoundTripIsIdentity ==
    /\ \A i \in 1..Len(loads) : loads[i] = Return(jkeyframes)
    /\ \A i \in 1..Len(dumps) : dumps[i] = dumps[1]

\* Two round trips of a list of two different keyframes with a negative, a
\* fractional and a two-digit component.
C15_Witness ==
    /\ Len(loads) = 2
    /\ Len(jkeyframes) = 2
    /\ jkeyframes[1] # jkeyframes[2]
    /\ jkeyframes[2].velocity[1].num < -20
    /\ jkeyframes[2].time.den = 2
    /\ loads[2].kind = "return"

----------------------------------------------------------------------------
(* Vocabulary of the stage properties: what a binding says, read off its   *)
(* form "rapier://{simulation_id}/body-{body_id}".                         *)

HasBindingForm(obj) ==
    /\ obj.physics_binding # NoBinding
    /\ \E sim \in StageSimIds, body \in StageBodyIds :
           obj.physics_binding.str = Binding(sim, body)

BoundTo(obj, sim) ==
    /\ obj.physics_binding # NoBinding
    /\ \E body \in StageBodyIds : obj.physics_binding.str = Binding(sim, body)

BodyOf(obj) ==
    CHOOSE body \in StageBodyIds :
        \E sim \in StageSimIds : obj.physics_binding.str = Binding(sim, body)

SceneNow ==
    [objects |-> objects, baked_animations |-> baked_animations,
     blobs |-> blobs, dirs |-> dirs]

\* C16: stage_bake_simulation on a scene in which no object has a binding
\* matching the requested simulation fails with the 'No objects bound to
\* simulation' error before any session is opened or any request is sent,
\* and leaves the scene and the blob store unchanged.
C16_NoMatchingObjectFailsFirst ==
    (/\ spc # "idle"
     /\ \A i \in 1..Len(at_call.objects) :
            ~BoundTo(at_call.objects[i], stage_args.simulation_id))
        => /\ spc = "raised"
           /\ stage_result = Raise(NoObjectsBound)
           /\ client = "None"
           /\ requests = <<>>
           /\ SceneNow = at_call

\* C17: for every binding of the form scheme://{simulation_id}/body-{body_id}
\* the body id extracted and sent to the bridge is exactly {body_id}, also
\* when {body_id} contains "body-": the body ids handed to bake_simulation
\* are the body ids of the bound objects' bindings, in order.
C17_BodyIdIsSuffixWithoutPrefix ==
    spc = "baking"
        => LET formed == SelectSeq(bound_objects, HasBindingForm)
           IN  body_ids = [i \in 1..Len(formed) |-> BodyOf(formed[i])]

\* C18: after a successful stage_bake_simulation, baked_objects is exactly
\* the set of objects bound to the simulation; for every object o in it the
\* blob /animations/{o}.json deserializes to the keyframe sequence the
\* bridge returned for o's body and baked_animations[o] has source =
\* simulation_id, fps = the requested fps, frames = the length of that
\* sequence and data_path = that blob path; total_frames is the largest of
\* these lengths.
C18_BakedObjectsAndMetadata ==
    spc = "returned"
        => LET sim   == stage_args.simulation_id
               baked == stage_result.value.baked_objects
               bound == {i \in 1..Len(objects) : BoundTo(objects[i], sim)}
               ks(i) == result.value[BodyOf(objects[i])]
           IN  /\ {baked[k] : k \in 1..Len(baked)} = {objects[i].id : i \in bound}
               /\ Len(baked) = Cardinality(bound)
               /\ \A i \in bound :
                      /\ BodyOf(objects[i]) \in DOMAIN result.value
                      /\ AnimationPath(objects[i].id) \in DOMAIN blobs
                      /\ keyframes_from_json(blobs[AnimationPath(objects[i].id)])
                             = Return(ks(i))
                      /\ objects[i].id \in DOMAIN baked_animations
                      /\ baked_animations[objects[i].id] =
                             BakedAnimation(objects[i].id, sim, stage_args.fps,
                                            Len(ks(i)),
                                            AnimationPath(objects[i].id))
               /\ stage_result.value.total_frames =
                      Max({0} \cup {Len(ks(i)) : i \in bound})

----------------------------------------------------------------------------
\* C19 as stated: the base URL is the constructor argument when one is
\* given, otherwise RAPIER_SERVICE_URL when set, otherwise RAPIER_URL when
\* set, otherwise https://rapier.chukai.io.
C19_UrlByPriorityWhenSet ==
    cpc \in {"constructed", "entered"}
        => physics_server_url =
               IF url_arg # None THEN url_arg
               ELSE IF env_at_init.RAPIER_SERVICE_URL # None
               THEN env_at_init.RAPIER_SERVICE_URL
               ELSE IF env_at_init.RAPIER_URL # None
               THEN env_at_init.RAPIER_URL
               ELSE DEFAULT_RAPIER_URL

\* C19, amended: the base URL is the constructor argument when one is given
\* and not empty, otherwise RAPIER_SERVICE_URL when set to a non-empty
\* value, otherwise RAPIER_URL when set to a non-empty value, otherwise
\* https://rapier.chukai.io; a non-empty RAPIER_SERVICE_URL wins over
\* RAPIER_URL.
C19_UrlByPriorityWhenNonEmpty ==
    cpc \in {"constructed", "entered"}
        => LET given(v) == v # None /\ v.str # <<>>
           IN  physics_server_url =
                   IF given(url_arg) THEN url_arg
                   ELSE IF given(env_at_init.RAPIER_SERVICE_URL)
                   THEN env_at_init.RAPIER_SERVICE_URL
                   ELSE IF given(env_at_init.RAPIER_URL)
                   THEN env_at_init.RAPIER_URL
                   ELSE DEFAULT_RAPIER_URL

\* A bridge constructed without an argument while both variables are set:
\* it has the URL of RAPIER_SERVICE_URL.
C19_Witness ==
    /\ cpc = "constructed"
    /\ url_arg = None
    /\ env_at_init.RAPIER_SERVICE_URL = Str(<<"http://service:9000">>)
    /\ env_at_init.RAPIER_URL = Str(<<"http://custom:8080">>)
    /\ physics_server_url = Str(<<"http://service:9000">>)

\* C20: the timeout of a session is the float value of RAPIER_TIMEOUT when
\* the variable holds a number and 30 seconds when it is unset or holds a
\* non-numeric value; a non-numeric value never raises.
C20_TimeoutIsNumberOrThirty ==
    cpc = "entered"
        => /\ timeout.kind = "return"
           /\ \/ /\ environ.RAPIER_TIMEOUT = None
                 /\ timeout.value = Rat(30, 1)
              \/ /\ environ.RAPIER_TIMEOUT # None
                 /\ environ.RAPIER_TIMEOUT.str \in NonNumericTexts
                 /\ timeout.value = Rat(30, 1)
              \/ /\ environ.RAPIER_TIMEOUT # None
                 /\ \E c \in NumericTexts :
                        /\ c.text = environ.RAPIER_TIMEOUT.str
                        /\ timeout.value = c.value

\* A session opened while RAPIER_TIMEOUT holds "not-a-number".
C20_Witness ==
    /\ cpc = "entered"
    /\ environ.RAPIER_TIMEOUT # None
    /\ environ.RAPIER_TIMEOUT.str
           = <<"n", "o", "t", "-", "a", "-", "n", "u", "m", "b", "e", "r">>
    /\ client = "open"
    /\ timeout = Return(Rat(30, 1))

\* The scene a call on SceneId gets: the cached one, or the one its file
\* holds.
SceneOf ==
    IF SceneId \in scenes THEN CachedScene
    ELSE model_validate_json(blobs[ScenePath])

\* The call `o` names something the manager does not have: a scene that was
\* never created, or an object or a shot that is not in the scene.
NamesUnknown(o) ==
    \/ /\ o.op \in {"get_scene", "get_scene_vfs"}
       /\ o.args.scene_id \notin scene_to_namespace
    \/ /\ o.op \in {"bind_physics", "add_baked_animation"}
       /\ o.args.scene_id \in scene_to_namespace
       /\ \A i \in 1..Len(SceneOf.objects) :
              SceneOf.objects[i].id # o.args.object_id
    \/ /\ o.op = "get_shot"
       /\ o.args.scene_id \in scene_to_namespace
       /\ \A i \in 1..Len(SceneOf.shots) :
              SceneOf.shots[i].id # o.args.shot_id

ValueErrors == {SceneNotFound, ObjectNotFound, ShotNotFound}

\* C21: bind_physics and add_baked_animation on an object id that is not in
\* the scene, get_shot on an unknown shot id, and get_scene / get_scene_vfs
\* on an unknown scene id each end with a ValueError in the step they are
\* made in: that step changes neither the fields of the scene nor any file
\* of the workspace, and no such call ever waits for a write.
C21_UnknownIdRaisesAndChangesNothing ==
    [][/\ (calls' = calls /\ outcome' # outcome /\ NamesUnknown(outcome'))
           => /\ outcome'.result.kind = "raise"
              /\ outcome'.result.exc \in ValueErrors
              /\ UNCHANGED <<objects, environment, lighting, shots,
                             baked_animations, blobs, dirs>>
       /\ Len(calls') > Len(calls) => ~NamesUnknown(calls'[Len(calls')])]_vars

\* bind_physics on an object id the scene does not have, in a scene that
\* has another object, has raised "Object not found".
C21_Witness ==
    /\ outcome # NoResult
    /\ outcome.op = "bind_physics"
    /\ outcome.args.object_id = "b"
    /\ outcome.result = Raise(ObjectNotFound)
    /\ SceneId \in scenes
    /\ Len(objects) = 1
    /\ objects[1].id = "a"

\* C22: the scene store is write-through: whenever every create_scene,
\* add_object, set_environment, add_shot, bind_physics and
\* add_baked_animation call made so far has completed, the scene that
\* _load_scene reads from the persisted scene.json equals the cached scene.
C22_PersistedSceneEqualsCached ==
    (calls = <<>> /\ SceneId \in scenes)
        => model_validate_json(blobs[ScenePath]) = CachedScene

\* After completed calls of every kind: two objects, the first one bound,
\* an animation, a shot and a changed environment, all of them in the file.
C22_Witness ==
    /\ calls = <<>>
    /\ SceneId \in scenes
    /\ Len(objects) = 2
    /\ objects[1].physics_binding # NoBinding
    /\ objects[2].physics_binding = NoBinding
    /\ DOMAIN baked_animations # {}
    /\ Len(shots) = 1
    /\ environment = Environment("solid")
    /\ lighting = Lighting("studio")
    /\ HasMember(blobs[ScenePath], "baked_animations")

\* the keyframe files of a workspace: its blobs under /animations
AnimationBlobs(files) ==
    [path \in {q \in DOMAIN files : q[1] = "/animations/"} |-> files[path]]

\* C23: when the bake of the bridge has failed inside stage_bake_simulation,
\* the call goes no further than raising that failure, and the
\* baked_animations of the scene and the blobs under /animations are what
\* they were when the call was made.
C23_FailedBakeLeavesAnimationsAlone ==
    (spc # "idle" /\ result.kind = "raise")
        => /\ spc \in {"baking", "raised"}
           /\ spc = "raised" => stage_result = result
           /\ baked_animations = at_call.baked_animations
           /\ AnimationBlobs(blobs) = AnimationBlobs(at_call.blobs)

\* A call that has failed on its second body, the first one fetched, on a
\* scene an earlier call has baked.
C23_Witness ==
    /\ spc = "raised"
    /\ result.kind = "raise"
    /\ Len(requests) = 2
    /\ DOMAIN baked_data # {}
    /\ DOMAIN at_call.baked_animations # {}

\* The session of a stage_bake_simulation call is where the call is: none
\* before the bridge exists, open while bake_simulation runs, closed from
\* the end of the `async with` block on, whether the bake returned or
\* raised.
SessionFollowsCall ==
    /\ spc = "idle" => client = "None"
    /\ spc = "baking" => client = "open"
    /\ spc \in {"mkdir", "storing", "adding", "returned"} => client = "closed"
    /\ (spc = "raised" /\ result.kind = "raise") => client = "closed"
    /\ (spc = "raised" /\ result.kind # "raise") => client \in {"None", "closed"}

\* The session changes in three ways only: it is opened by the step that
\* starts the call, before any request; it is closed by the step that
\* follows the end of bake_simulation; it goes with the bridge when the
\* call is over.  No step of bake_simulation changes it and no request is
\* sent once it is closed.
SessionStep ==
    /\ client' # client
           => \/ /\ client = "None" /\ client' = "open"
                 /\ spc = "idle" /\ spc' = "baking"
                 /\ requests' = <<>>
              \/ /\ client = "open" /\ client' = "closed"
                 /\ spc = "baking" /\ pc \in {"returned", "raised"}
                 /\ requests' = requests
              \/ /\ client = "closed" /\ client' = "None"
                 /\ spc' = "idle"
    /\ (spc = "baking" /\ spc' = "baking") => client' = client
    /\ client = "closed" => (requests' = requests \/ requests' = <<>>)
    /\ Len(requests') > Len(requests) => client = "open"

\* C24: in every stage_bake_simulation call that reaches the bridge the
\* session is opened once, before the first body request, and closed once,
\* after the last one, also when a body fetch fails; no request is sent
\* after the close and bake_simulation neither opens nor closes it.
C24_SessionOpenedOnceClosedOnce ==
    []SessionFollowsCall /\ [][SessionStep]_vars

\* A call that has returned after two body requests: its session is closed.
C24_Witness ==
    /\ spc = "returned"
    /\ Len(requests) = 2
    /\ client = "closed"

\* C25: the base URL and the request timeout of a bridge's session are the
\* values in effect when the bridge was constructed: the URL is the
\* argument or what the environment of the construction gives, the timeout
\* is what the environment of the construction gives, whatever the
\* environment has become when the session is opened.
C25_ConfigIsThatOfConstruction ==
    cpc = "entered"
        => /\ physics_server_url = Or(url_arg, get_rapier_url(env_at_init))
           /\ timeout = get_rapier_timeout(env_at_init)

\* C26: an object that enters the scene has no physics binding, and the
\* binding of an object the scene has changes only in a step that makes a
\* bind_physics call on its id, to the binding that call gives: no other
\* step (add_object for any id, add_shot, set_environment,
\* add_baked_animation) changes a binding.
C26_BindingChangesOnlyThroughBindPhysics ==
    [][/\ \A j \in 1..Len(objects') :
              ~HasItem(objects, objects'[j].id)
                  => objects'[j].physics_binding = NoBinding
       /\ \A i \in 1..Len(objects) :
              (/\ HasItem(objects', objects[i].id)
               /\ Item(objects', objects[i].id).physics_binding
                      # objects[i].physics_binding)
                  => /\ Len(calls') > Len(calls)
                     /\ calls'[Len(calls')].op = "bind_physics"
                     /\ calls'[Len(calls')].args.object_id = objects[i].id
                     /\ calls'[Len(calls')].args.physics_body_id
                            = Item(objects', objects[i].id).physics_binding]_vars

\* C27: stage_bake_simulation fetches and bakes only objects whose
\* binding's simulation-id component equals the requested simulation_id:
\* every object with a binding of the form rapier://{sim}/body-{body} that
\* the call takes for fetching is bound to the requested simulation, and so
\* is every object that has received a baked animation since the call was
\* made.
C27_OnlyObjectsOfTheSimulation ==
    spc \notin {"idle", "raised"}
        => /\ \A i \in 1..Len(bound_objects) :
                  HasBindingForm(bound_objects[i])
                      => BoundTo(bound_objects[i], stage_args.simulation_id)
           /\ \A i \in 1..Len(objects) :
                  (/\ objects[i].id \in DOMAIN baked_animations
                   /\ objects[i].id \notin DOMAIN at_call.baked_animations)
                      => BoundTo(objects[i], stage_args.simulation_id)

\* C28 as stated: a bake_simulation call on a bridge whose session has been
\* closed ends, like one on a bridge that was never opened, with 'Physics
\* client not initialized', and has sent no request.
C28_ClosedBridgeIsNotInitialized ==
    (client = "closed" /\ pc \in {"returned", "raised"})
        => /\ result = Raise(NotInitialized)
           /\ requests = <<>>

\* C28 as amended: a bake_simulation call on a bridge whose session has
\* been closed sends no request and never waits for an answer; the closed
\* client is still there, so the call passes the guard: with a body to
\* fetch it ends with the RuntimeError of the closed client, with none it
\* returns the empty dict.
C28_ClosedBridgeSendsNothing ==
    (client = "closed" /\ pc # "idle")
        => /\ requests = <<>>
           /\ pc # "awaiting"
           /\ pc \in {"returned", "raised"}
                  => result = IF body_ids = <<>> THEN Return(EmptyDict)
                              ELSE Raise("RuntimeError")

\* A call for two bodies on a closed bridge has raised RuntimeError.
C28_Witness ==
    /\ client = "closed"
    /\ pc = "raised"
    /\ Len(body_ids) = 2
    /\ result = Raise("RuntimeError")
    /\ requests = <<>>

\* C29: when mutating calls on the scene run as interleaved coroutines,
\* then once all of them have completed the cached scene has the object
\* of the add_object call that completed last and the persisted scene.json
\* read back equals the cached scene: no update is lost.
C29_NoUpdateIsLost ==
    (calls = <<>> /\ SceneId \in scenes)
        => /\ (outcome.op = "add_object" /\ outcome.result.kind = "return")
                  => HasItem(objects, outcome.args.obj.id)
           /\ model_validate_json(blobs[ScenePath]) = CachedScene

\* C30: in every reachable state of the scene, each key of baked_animations
\* is the id of an object of the scene's objects, in the cached scene and
\* in the scene its file holds.
C30_BakedAnimationsAreOfObjects ==
    /\ \A k \in DOMAIN baked_animations : HasItem(objects, k)
    /\ ScenePath \in DOMAIN blobs
           => LET saved == model_validate_json(blobs[ScenePath])
              IN  \A k \in DOMAIN saved.baked_animations :
                      HasItem(saved.objects, k)

\* A scene of two objects, the second one with a baked animation, the
\* first one without, in the cache and in the file.
C30_Witness ==
    /\ Len(objects) = 2
    /\ DOMAIN baked_animations = {objects[2].id}
    /\ calls = <<>>
    /\ DOMAIN model_validate_json(blobs[ScenePath]).baked_animations
           = {objects[2].id}

====
